---- MODULE Spec2Model ----
(***************************************************************************)
(* A state-machine model of the Remen Printing point of sale: the Cashier  *)
(* page (cart and checkout), the Reports page (edit and delete of stored   *)
(* transactions) and the Fund Withdrawal page, all acting on one external  *)
(* store.  Every await of the source is a point where other handlers may   *)
(* run, so each async handler is one action per awaited store call.        *)
(* Amounts are integers: multiples of 1/unit of the currency.              *)
(***************************************************************************)
EXTENDS Integers, Sequences, FiniteSets, TLC

VARIABLES
    dbProducts,       \* store: products collection (sequence, ordered by code)
    dbTx,             \* store: transactions, id -> header row
    dbItems,          \* store: transaction_items, id -> item row
    dbWd,             \* store: withdrawals, id -> row
    nextId,           \* store: the next id of each table (gen_random_uuid)
    products,         \* Cashier: loaded product list
    cart,             \* Cashier: sequence of cart lines
    paymentAmount,    \* Cashier: text of the payment input
    showPayment,      \* Cashier: payment dialog open
    pay,              \* Cashier: the handlePayment invocations in flight
    toast,            \* Cashier and Reports: the notification shown last
    receipt,          \* Cashier: the receipt document rendered last
    transactions,     \* Reports: fetched list of transactions with their items
    editDialogOpen,   \* Reports: edit dialog open
    editingTransaction, \* Reports: header being edited, or NoTx
    editItems,        \* Reports: item rows being edited
    rep,              \* Reports: the async handler in flight
    wd,               \* Withdrawals: per session, page state and handler in flight
    page,             \* the page the first browser tab shows
    saves,            \* how many times handleSaveEdit was called so far
    quota,            \* how many sales the run follows
    unit,             \* how many of the model's whole numbers make 1 of currency
    dbOrders,         \* store: printing_orders, id -> row
    clock,            \* store: now()
    pr,               \* Products: per session, page state and handler in flight
    po                \* Printing Orders: per session, page state and handler in flight

storeVars == <<dbProducts, dbTx, dbItems, dbWd, nextId>>
cashierVars == <<products, cart, paymentAmount, showPayment, pay, receipt>>
reportVars == <<transactions, editDialogOpen, editingTransaction, editItems, rep>>
officeVars == <<dbOrders, clock, pr, po>>
vars == <<storeVars, cashierVars, reportVars, toast, wd, page, saves, quota, unit, officeVars>>

----------------------------------------------------------------------------
(* Bounds of the exploration *)

\* largest quantity a cart line is driven to
MaxQty == 2
\* number of transaction headers the store accepts before the model stops selling
MaxTx == 1
\* number of handlePayment invocations that may be in flight at once
MaxInflight == 1
MaxEdits == 1
MaxWd == 2
MaxSessions == 2
MaxProducts == 2
MaxOrders == 1
MaxWrites == 3

Slots == 1..MaxInflight

----------------------------------------------------------------------------
(* JavaScript numbers and texts *)

\* the value parseFloat returns for a text that holds no number
NaN == -1000000

\* texts an <input type="number"> can hold in the model: empty, or a numeral
NumeralOf(n) == ToString(n)

Numerals == -1..9

parseFloat(text) ==
    IF \E n \in Numerals : NumeralOf(n) = text
    THEN CHOOSE n \in Numerals : NumeralOf(n) = text
    ELSE NaN

isNaN(x) == x = NaN

\* !x for a number: true for NaN and for 0
Not(x) == isNaN(x) \/ x = 0

\* a < b on numbers: false when either side is NaN
Less(a, b) == ~isNaN(a) /\ ~isNaN(b) /\ a < b

\* a <= b on numbers: false when either side is NaN
LessEq(a, b) == ~isNaN(a) /\ ~isNaN(b) /\ a <= b

\* a DECIMAL(10, 2) column keeps two fractional digits: a value with more
\* is rounded to the nearest cent on write, a tie away from zero
Decimal2(x) ==
    IF unit <= 100 THEN x
    ELSE LET cent == unit \div 100
             mag == IF x < 0 THEN -x ELSE x
             rounded == ((2 * mag + cent) \div (2 * cent)) * cent
         IN IF x < 0 THEN -rounded ELSE rounded

\* a name text is a sequence of characters; String.prototype.trim
RECURSIVE trimStart(_)
trimStart(s) ==
    IF s # <<>> /\ Head(s) = " " THEN trimStart(Tail(s)) ELSE s

RECURSIVE trimEnd(_)
trimEnd(s) ==
    IF s # <<>> /\ s[Len(s)] = " " THEN trimEnd(SubSeq(s, 1, Len(s) - 1)) ELSE s

trim(s) == trimEnd(trimStart(s))

----------------------------------------------------------------------------
(* Inputs the user can type *)

PaymentTexts == {"", "0", "2", "5"}
PriceTexts == {"", "-1", "0", "1"}
NameTexts == {<<>>, <<" ">>, <<"X", " ">>}

----------------------------------------------------------------------------
(* The store as created by the migration, with a small catalog *)

Catalog ==
    << [id |-> 1, code |-> "P001", name |-> <<"A">>, price |-> 0],
       [id |-> 2, code |-> "P002", name |-> <<"B">>, price |-> 2] >>

NoTx == [id |-> 0]

NoReceipt == [transactionId |-> 0]

IdlePay == [pc |-> "idle", cart |-> <<>>, totalAmount |-> 0, payment |-> 0,
            changeAmount |-> 0, transactionId |-> 0, log |-> <<>>]

\* delete by key from a function
Without(f, ks) == [k \in DOMAIN f \ ks |-> f[k]]

\* the rows of transaction_items that reference header id
ItemsOf(items, id) == {k \in DOMAIN items : items[k].transaction_id = id}

\* mutant: transaction_id is a plain column
References_Unchecked(headers, id) == TRUE

\* transaction_id REFERENCES transactions(id): a row is accepted when its
\* header is stored
References(headers, id) == id \in DOMAIN headers

----------------------------------------------------------------------------
(* Cashier: the cart *)

\* cart.find(item => item.product.id === id) found something
InCart(c, id) == \E i \in 1..Len(c) : c[i].product.id = id

\* cart.reduce((sum, item) => sum + item.displayPrice * item.quantity, 0)
RECURSIVE reduceTotal(_, _)
reduceTotal(c, sum) ==
    IF c = <<>> THEN sum
    ELSE reduceTotal(Tail(c), sum + Head(c).displayPrice * Head(c).quantity)

\* mutant: the total forgets the quantities
RECURSIVE reducePrices(_, _)
reducePrices(c, sum) ==
    IF c = <<>> THEN sum
    ELSE reducePrices(Tail(c), sum + Head(c).displayPrice)

totalAmountOf_PriceOnly(c) == reducePrices(c, 0)

totalAmountOf(c) == reduceTotal(c, 0)

totalAmount == totalAmountOf(cart)

\* the model follows the cashier until quota headers are stored
Selling == nextId.tx <= quota

\* the cart is behind the modal payment dialog while that is open
CartReachable == ~showPayment

\* runs once when the page mounts; the select succeeds or returns an error
fetchProducts ==
    /\ page = "cashier"
    /\ products = <<>>
    /\ \/ /\ products' = dbProducts
          /\ toast' = toast
       \/ /\ products' = products
          /\ toast' = "Gagal memuat produk"
    /\ UNCHANGED <<storeVars, cart, paymentAmount, showPayment, pay, receipt,
                   reportVars, wd, page, saves, quota, unit, officeVars>>

\* mutant: every click adds a line, also for a product that has one
addToCartResult_AlwaysAppends(c, product) ==
    Append(c, [product |-> product, quantity |-> 1,
               displayPrice |-> product.price,
               displayName |-> product.name])

\* mutant: adding a product that has a line resets the line's display price
addToCartResult_ResetsPrice(c, product) ==
    IF InCart(c, product.id)
    THEN [i \in 1..Len(c) |->
            IF c[i].product.id = product.id
            THEN [c[i] EXCEPT !.quantity = c[i].quantity + 1,
                              !.displayPrice = product.price]
            ELSE c[i]]
    ELSE Append(c, [product |-> product, quantity |-> 1,
                    displayPrice |-> product.price,
                    displayName |-> product.name])

addToCartResult(c, product) ==
    IF InCart(c, product.id)
    THEN [i \in 1..Len(c) |->
            IF c[i].product.id = product.id
            THEN [c[i] EXCEPT !.quantity = c[i].quantity + 1]
            ELSE c[i]]
    ELSE Append(c, [product |-> product, quantity |-> 1,
                    displayPrice |-> product.price,
                    displayName |-> product.name])

addToCart(product) ==
    /\ page = "cashier"
    /\ Selling
    /\ CartReachable
    /\ \A i \in 1..Len(cart) :
          cart[i].product.id = product.id => cart[i].quantity < MaxQty
    /\ cart' = addToCartResult(cart, product)
    /\ UNCHANGED <<storeVars, products, paymentAmount, showPayment, pay, toast,
                   receipt, reportVars, wd, page, saves, quota, unit, officeVars>>

Max(a, b) == IF a >= b THEN a ELSE b

\* mutant: the filter keeps lines of quantity 0
KeepPositive_OrZero(item) == item.quantity >= 0

KeepPositive(item) == item.quantity > 0

\* mutant: a line whose quantity reaches 0 stays in the cart
updateQuantityResult_KeepsZero(c, productId, delta) ==
    [i \in 1..Len(c) |->
        IF c[i].product.id = productId
        THEN [c[i] EXCEPT !.quantity = Max(0, c[i].quantity + delta)]
        ELSE c[i]]

updateQuantityResult(c, productId, delta) ==
    SelectSeq([i \in 1..Len(c) |->
                 IF c[i].product.id = productId
                 THEN [c[i] EXCEPT !.quantity = Max(0, c[i].quantity + delta)]
                 ELSE c[i]],
              KeepPositive)

updateQuantity(productId, delta) ==
    /\ page = "cashier"
    /\ Selling
    /\ CartReachable
    /\ InCart(cart, productId)
    /\ \A i \in 1..Len(cart) :
          cart[i].product.id = productId => cart[i].quantity + delta <= MaxQty
    /\ cart' = updateQuantityResult(cart, productId, delta)
    /\ UNCHANGED <<storeVars, products, paymentAmount, showPayment, pay, toast,
                   receipt, reportVars, wd, page, saves, quota, unit, officeVars>>

\* mutant: the earlier variant of the page, which takes every text
updatePrice_Unvalidated(productId, newPrice) ==
    /\ page = "cashier"
    /\ Selling
    /\ CartReachable
    /\ InCart(cart, productId)
    /\ cart' = [i \in 1..Len(cart) |->
                 IF cart[i].product.id = productId
                 THEN [cart[i] EXCEPT !.displayPrice =
                         IF Not(parseFloat(newPrice)) THEN 0
                         ELSE parseFloat(newPrice)]
                 ELSE cart[i]]
    /\ UNCHANGED <<storeVars, products, paymentAmount, showPayment, pay, toast,
                   receipt, reportVars, wd, page, saves, quota, unit, officeVars>>

updatePrice(productId, newPrice) ==
    /\ page = "cashier"
    /\ Selling
    /\ CartReachable
    /\ InCart(cart, productId)
    /\ LET price == parseFloat(newPrice) IN
         IF isNaN(price) \/ price <= 0
         THEN /\ toast' = "Harga harus lebih dari 0"
              /\ cart' = cart
         ELSE /\ cart' = [i \in 1..Len(cart) |->
                            IF cart[i].product.id = productId
                            THEN [cart[i] EXCEPT !.displayPrice = price]
                            ELSE cart[i]]
              /\ toast' = toast
    /\ UNCHANGED <<storeVars, products, paymentAmount, showPayment, pay,
                   receipt, reportVars, wd, page, saves, quota, unit, officeVars>>

\* mutant: the new name is also written into the product the line refers to
updateName_RenamesProduct(productId, newName) ==
    /\ page = "cashier"
    /\ Selling
    /\ CartReachable
    /\ InCart(cart, productId)
    /\ LET trimmedName == trim(newName) IN
         IF Len(trimmedName) = 0
         THEN /\ toast' = "Nama produk tidak boleh kosong"
              /\ cart' = cart
         ELSE /\ cart' = [i \in 1..Len(cart) |->
                            IF cart[i].product.id = productId
                            THEN [cart[i] EXCEPT !.displayName = trimmedName,
                                                 !.product.name = trimmedName]
                            ELSE cart[i]]
              /\ toast' = toast
    /\ UNCHANGED <<storeVars, products, paymentAmount, showPayment, pay,
                   receipt, reportVars, wd, page, saves, quota, unit, officeVars>>

updateName(productId, newName) ==
    /\ page = "cashier"
    /\ Selling
    /\ CartReachable
    /\ InCart(cart, productId)
    /\ LET trimmedName == trim(newName) IN
         IF Len(trimmedName) = 0
         THEN /\ toast' = "Nama produk tidak boleh kosong"
              /\ cart' = cart
         ELSE /\ cart' = [i \in 1..Len(cart) |->
                            IF cart[i].product.id = productId
                            THEN [cart[i] EXCEPT !.displayName = trimmedName]
                            ELSE cart[i]]
              /\ toast' = toast
    /\ UNCHANGED <<storeVars, products, paymentAmount, showPayment, pay,
                   receipt, reportVars, wd, page, saves, quota, unit, officeVars>>

removeFromCart(productId) ==
    /\ page = "cashier"
    /\ Selling
    /\ CartReachable
    /\ InCart(cart, productId)
    /\ LET Others(item) == item.product.id # productId IN
         cart' = SelectSeq(cart, Others)
    /\ UNCHANGED <<storeVars, products, paymentAmount, showPayment, pay, toast,
                   receipt, reportVars, wd, page, saves, quota, unit, officeVars>>

\* the "Batal Transaksi" button, shown while the cart has lines
clearCart ==
    /\ page = "cashier"
    /\ Selling
    /\ CartReachable
    /\ Len(cart) > 0
    /\ cart' = <<>>
    /\ UNCHANGED <<storeVars, products, paymentAmount, showPayment, pay, toast,
                   receipt, reportVars, wd, page, saves, quota, unit, officeVars>>

----------------------------------------------------------------------------
(* Cashier: payment dialog and checkout *)

\* "Proses Pembayaran", disabled while the cart is empty
openPayment ==
    /\ page = "cashier"
    /\ Selling
    /\ ~showPayment
    /\ Len(cart) # 0
    /\ showPayment' = TRUE
    /\ UNCHANGED <<storeVars, products, cart, paymentAmount, pay, toast,
                   receipt, reportVars, wd, page, saves, quota, unit, officeVars>>

\* "Batal" in the dialog, or the dialog's own close
closePayment ==
    /\ showPayment
    /\ showPayment' = FALSE
    /\ UNCHANGED <<storeVars, products, cart, paymentAmount, pay, toast,
                   receipt, reportVars, wd, page, saves, quota, unit, officeVars>>

setPaymentAmount(text) ==
    /\ page = "cashier"
    /\ Selling
    /\ showPayment
    /\ paymentAmount' = text
    /\ UNCHANGED <<storeVars, products, cart, showPayment, pay, toast,
                   receipt, reportVars, wd, page, saves, quota, unit, officeVars>>

\* headers already stored or about to be
HeadersClaimed ==
    (nextId.tx - 1) + Cardinality({h \in Slots : pay[h].pc = "header"})

\* mutant: a failed validation also empties the payment input
handlePayment_ClearsAmount(h) ==
    /\ showPayment
    /\ pay[h].pc = "idle"
    /\ LET payment == parseFloat(paymentAmount) IN
         IF Not(payment) \/ Less(payment, totalAmount)
         THEN /\ toast' = "Jumlah pembayaran tidak valid"
              /\ pay' = pay
              /\ paymentAmount' = ""
         ELSE /\ HeadersClaimed < quota
              /\ pay' = [pay EXCEPT ![h] =
                            [pc |-> "header", cart |-> cart,
                             totalAmount |-> totalAmount,
                             payment |-> payment,
                             changeAmount |-> payment - totalAmount,
                             transactionId |-> 0, log |-> <<>>]]
              /\ toast' = toast
              /\ paymentAmount' = paymentAmount
    /\ UNCHANGED <<storeVars, products, cart, showPayment,
                   receipt, reportVars, wd, page, saves, quota, unit, officeVars>>

\* handlePayment up to its first await: validation, then the header insert is sent
handlePayment(h) ==
    /\ showPayment
    /\ pay[h].pc = "idle"
    /\ LET payment == parseFloat(paymentAmount) IN
         IF Not(payment) \/ Less(payment, totalAmount)
         THEN /\ toast' = "Jumlah pembayaran tidak valid"
              /\ pay' = pay
         ELSE /\ HeadersClaimed < quota
              /\ pay' = [pay EXCEPT ![h] =
                            [pc |-> "header", cart |-> cart,
                             totalAmount |-> totalAmount,
                             payment |-> payment,
                             changeAmount |-> payment - totalAmount,
                             transactionId |-> 0, log |-> <<>>]]
              /\ toast' = toast
    /\ UNCHANGED <<storeVars, products, cart, paymentAmount, showPayment,
                   receipt, reportVars, wd, page, saves, quota, unit, officeVars>>

\* the header insert returns a row
paymentHeaderOk(h) ==
    /\ pay[h].pc = "header"
    /\ dbTx' = (nextId.tx :> [total_amount |-> Decimal2(pay[h].totalAmount),
                              payment_amount |-> Decimal2(pay[h].payment),
                              change_amount |-> Decimal2(pay[h].changeAmount)])
                  @@ dbTx
    /\ nextId' = [nextId EXCEPT !.tx = nextId.tx + 1]
    /\ pay' = [pay EXCEPT ![h].pc = "items",
                          ![h].transactionId = nextId.tx,
                          ![h].log = <<"header">>]
    /\ UNCHANGED <<dbProducts, dbItems, dbWd, products, cart, paymentAmount,
                   showPayment, toast, receipt, reportVars, wd, page, saves, quota, unit, officeVars>>

\* the header insert returns an error
paymentHeaderError(h) ==
    /\ pay[h].pc = "header"
    /\ toast' = "Gagal menyimpan transaksi"
    /\ pay' = [pay EXCEPT ![h] = IdlePay]
    /\ UNCHANGED <<storeVars, products, cart, paymentAmount, showPayment,
                   receipt, reportVars, wd, page, saves, quota, unit, officeVars>>

\* the rows handlePayment builds from the cart it was called with
itemRows(c, transactionId) ==
    [i \in 1..Len(c) |->
        [transaction_id |-> transactionId,
         product_code |-> c[i].product.code,
         product_name |-> c[i].displayName,
         quantity |-> c[i].quantity,
         price |-> c[i].displayPrice,
         subtotal |-> c[i].displayPrice * c[i].quantity]]

\* insert of an array of rows: each gets a fresh id
insertItems(items, rows) ==
    [k \in nextId.item..(nextId.item + Len(rows) - 1) |->
        [rows[k - nextId.item + 1] EXCEPT !.price = Decimal2(@),
                                          !.subtotal = Decimal2(@)]] @@ items

\* printReceipt: the document written when window.open gave a window
receiptOf(p) ==
    [transactionId |-> p.transactionId, items |-> p.cart,
     total |-> p.totalAmount, payment |-> p.payment, change |-> p.changeAmount]

\* mutant: the reset forgets the cart
paymentItemsOk_KeepsCart(h) ==
    /\ pay[h].pc = "items"
    /\ References(dbTx, pay[h].transactionId)
    /\ dbItems' = insertItems(dbItems, itemRows(pay[h].cart, pay[h].transactionId))
    /\ nextId' = [nextId EXCEPT !.item = nextId.item + Len(pay[h].cart)]
    /\ \E opened \in BOOLEAN :
         IF opened
         THEN /\ receipt' = receiptOf(pay[h])
              /\ pay' = [pay EXCEPT ![h] = [IdlePay EXCEPT !.log =
                            <<"header", "items", "receipt", "reset">>]]
         ELSE /\ receipt' = receipt
              /\ pay' = [pay EXCEPT ![h] = [IdlePay EXCEPT !.log =
                            <<"header", "items", "reset">>]]
    /\ cart' = cart
    /\ paymentAmount' = ""
    /\ showPayment' = FALSE
    /\ toast' = "Transaksi berhasil"
    /\ UNCHANGED <<dbProducts, dbTx, dbWd, products, reportVars, wd, page, saves, quota, unit, officeVars>>

\* the items insert succeeds: receipt, then reset of cart, amount and dialog
paymentItemsOk(h) ==
    /\ pay[h].pc = "items"
    /\ References(dbTx, pay[h].transactionId)
    /\ dbItems' = insertItems(dbItems, itemRows(pay[h].cart, pay[h].transactionId))
    /\ nextId' = [nextId EXCEPT !.item = nextId.item + Len(pay[h].cart)]
    /\ \E opened \in BOOLEAN :
         IF opened
         THEN /\ receipt' = receiptOf(pay[h])
              /\ pay' = [pay EXCEPT ![h] = [IdlePay EXCEPT !.log =
                            <<"header", "items", "receipt", "reset">>]]
         ELSE /\ receipt' = receipt
              /\ pay' = [pay EXCEPT ![h] = [IdlePay EXCEPT !.log =
                            <<"header", "items", "reset">>]]
    /\ cart' = <<>>
    /\ paymentAmount' = ""
    /\ showPayment' = FALSE
    /\ toast' = "Transaksi berhasil"
    /\ UNCHANGED <<dbProducts, dbTx, dbWd, products, reportVars, wd, page, saves, quota, unit, officeVars>>

\* mutant: a failed items insert resets the sale like a finished one
paymentItemsError_Resets(h) ==
    /\ pay[h].pc = "items"
    /\ toast' = "Gagal menyimpan detail transaksi"
    /\ pay' = [pay EXCEPT ![h] = [IdlePay EXCEPT !.log = <<"header">>]]
    /\ cart' = <<>>
    /\ paymentAmount' = ""
    /\ showPayment' = FALSE
    /\ UNCHANGED <<storeVars, products, receipt, reportVars, wd, page, saves, quota, unit, officeVars>>

\* the items insert returns an error
paymentItemsError(h) ==
    /\ pay[h].pc = "items"
    /\ toast' = "Gagal menyimpan detail transaksi"
    /\ pay' = [pay EXCEPT ![h] = [IdlePay EXCEPT !.log = <<"header">>]]
    /\ UNCHANGED <<storeVars, products, cart, paymentAmount, showPayment,
                   receipt, reportVars, wd, page, saves, quota, unit, officeVars>>

----------------------------------------------------------------------------
(* Reports: list, delete and edit of stored transactions *)

EditQuantityTexts == {"3"}
EditPriceTexts == {"1"}
EditPaymentTexts == {""}

\* parseInt on the texts of a number input: as parseFloat on whole numerals
parseInt(text) == parseFloat(text)

\* x || 0 on a number
OrZero(x) == IF Not(x) THEN 0 ELSE x

RECURSIVE Ascending(_)
Ascending(S) ==
    IF S = {} THEN <<>>
    ELSE LET m == CHOOSE x \in S : \A y \in S : x <= y
         IN <<m>> \o Ascending(S \ {m})

RECURSIVE Descending(_)
Descending(S) ==
    IF S = {} THEN <<>>
    ELSE LET m == CHOOSE x \in S : \A y \in S : x >= y
         IN <<m>> \o Descending(S \ {m})

\* select("*"): a row with its id column
Row(table, k) == [id |-> k] @@ table[k]

\* select("*").eq("transaction_id", id) on transaction_items
selectItems(id) ==
    LET ks == Ascending(ItemsOf(dbItems, id))
    IN [n \in 1..Len(ks) |-> Row(dbItems, ks[n])]

\* select("*").order("transaction_date", descending) on transactions
selectTransactions ==
    LET ks == Descending(DOMAIN dbTx)
    IN [n \in 1..Len(ks) |-> Row(dbTx, ks[n])]

\* a request to the store that was sent and has not returned
Request(op, table, id) == [op |-> op, table |-> table, id |-> id]

RepIdle == [pc |-> "idle", sent |-> {}]

\* fetchTransactions up to its first await: the select of the headers is sent
FetchSent == [pc |-> "fetch_tx", sent |-> {Request("select", "transactions", 0)}]

\* fetchTransactions is called: on mount, on a date change, after a save or delete
fetchTransactions ==
    /\ page = "reports"
    /\ rep.pc = "idle"
    /\ ~editDialogOpen
    /\ rep' = FetchSent
    /\ UNCHANGED <<storeVars, cashierVars, transactions, editDialogOpen,
                   editingTransaction, editItems, toast, wd, page, saves, quota, unit, officeVars>>

\* mutant: the item selects are sent one after the other
fetchTransactionsOk_OneByOne ==
    /\ rep.pc = "fetch_tx"
    /\ LET rows == selectTransactions
       IN rep' = [pc |-> "fetch_items", rows |-> rows, fetched |-> <<>>,
                  sent |-> {Request("select", "transaction_items", rows[n].id) :
                               n \in {m \in 1..Len(rows) : m = 1}}]
    /\ UNCHANGED <<storeVars, cashierVars, transactions, editDialogOpen,
                   editingTransaction, editItems, toast, wd, page, saves, quota, unit, officeVars>>

\* the select of the headers returns: the item selects of all rows are sent
\* (Promise.all over the rows)
fetchTransactionsOk ==
    /\ rep.pc = "fetch_tx"
    /\ LET rows == selectTransactions
       IN rep' = [pc |-> "fetch_items", rows |-> rows, fetched |-> <<>>,
                  sent |-> {Request("select", "transaction_items", rows[n].id) :
                               n \in 1..Len(rows)}]
    /\ UNCHANGED <<storeVars, cashierVars, transactions, editDialogOpen,
                   editingTransaction, editItems, toast, wd, page, saves, quota, unit, officeVars>>

fetchTransactionsError ==
    /\ rep.pc = "fetch_tx"
    /\ toast' = "Failed to load reports"
    /\ rep' = RepIdle
    /\ UNCHANGED <<storeVars, cashierVars, transactions, editDialogOpen,
                   editingTransaction, editItems, wd, page, saves, quota, unit, officeVars>>

\* one of the item selects returns its rows
itemSelectOk(id) ==
    /\ rep.pc = "fetch_items"
    /\ Request("select", "transaction_items", id) \in rep.sent
    /\ rep' = [rep EXCEPT !.sent = @ \ {Request("select", "transaction_items", id)},
                          !.fetched = (id :> selectItems(id)) @@ @]
    /\ UNCHANGED <<storeVars, cashierVars, transactions, editDialogOpen,
                   editingTransaction, editItems, toast, wd, page, saves, quota, unit, officeVars>>

\* one of the item selects returns an error: items || [] gives no items
itemSelectError(id) ==
    /\ rep.pc = "fetch_items"
    /\ Request("select", "transaction_items", id) \in rep.sent
    /\ rep' = [rep EXCEPT !.sent = @ \ {Request("select", "transaction_items", id)},
                          !.fetched = (id :> <<>>) @@ @]
    /\ UNCHANGED <<storeVars, cashierVars, transactions, editDialogOpen,
                   editingTransaction, editItems, toast, wd, page, saves, quota, unit, officeVars>>

\* every item select has returned: Promise.all resolves and the list is set
fetchItemsDone ==
    /\ rep.pc = "fetch_items"
    /\ rep.sent = {}
    /\ transactions' =
          [n \in 1..Len(rep.rows) |->
              [transaction_items |-> rep.fetched[rep.rows[n].id]] @@ rep.rows[n]]
    /\ rep' = RepIdle
    /\ UNCHANGED <<storeVars, cashierVars, editDialogOpen,
                   editingTransaction, editItems, toast, wd, page, saves, quota, unit, officeVars>>

\* handleDelete after confirm(): the delete of the items is sent
handleDelete(id) ==
    /\ page = "reports"
    /\ rep.pc = "idle"
    /\ ~editDialogOpen
    /\ rep' = [pc |-> "delete_items", id |-> id,
               sent |-> {Request("delete", "transaction_items", id)}]
    /\ UNCHANGED <<storeVars, cashierVars, transactions, editDialogOpen,
                   editingTransaction, editItems, toast, wd, page, saves, quota, unit, officeVars>>

\* the delete of the items returns; its error is not looked at
deleteItemsDone ==
    /\ rep.pc = "delete_items"
    /\ \/ dbItems' = Without(dbItems, ItemsOf(dbItems, rep.id))
       \/ dbItems' = dbItems
    /\ rep' = [rep EXCEPT !.pc = "delete_tx",
                          !.sent = {Request("delete", "transactions", rep.id)}]
    /\ UNCHANGED <<dbProducts, dbTx, dbWd, nextId, cashierVars, transactions,
                   editDialogOpen, editingTransaction, editItems, toast, wd, page, saves, quota, unit, officeVars>>

\* the delete of the header succeeds (items go with it: ON DELETE CASCADE)
deleteTransactionOk ==
    /\ rep.pc = "delete_tx"
    /\ dbTx' = Without(dbTx, {rep.id})
    /\ dbItems' = Without(dbItems, ItemsOf(dbItems, rep.id))
    /\ toast' = "Transaction deleted successfully"
    /\ rep' = FetchSent
    /\ UNCHANGED <<dbProducts, dbWd, nextId, cashierVars, transactions,
                   editDialogOpen, editingTransaction, editItems, wd, page, saves, quota, unit, officeVars>>

deleteTransactionError ==
    /\ rep.pc = "delete_tx"
    /\ toast' = "Failed to delete transaction"
    /\ rep' = RepIdle
    /\ UNCHANGED <<storeVars, cashierVars, transactions, editDialogOpen,
                   editingTransaction, editItems, wd, page, saves, quota, unit, officeVars>>

(* The Reports page of another browser tab deleting a sale it lists.  That
   tab's own state is not followed: its requests reach the store one by one,
   the items delete and then the header delete of the handler above, or the
   header delete alone of the handler's earlier form. *)

\* the other tab's delete of the items of sale id reaches the store
remoteDeleteItems(id) ==
    /\ dbItems' = Without(dbItems, ItemsOf(dbItems, id))
    /\ dbItems' # dbItems
    /\ UNCHANGED <<dbProducts, dbTx, dbWd, nextId, cashierVars, reportVars,
                   toast, wd, page, saves, quota, unit, officeVars>>

\* the other tab's delete of header id reaches the store (items go with it:
\* ON DELETE CASCADE)
remoteDeleteTransaction(id) ==
    /\ id \in DOMAIN dbTx
    /\ dbTx' = Without(dbTx, {id})
    /\ dbItems' = Without(dbItems, ItemsOf(dbItems, id))
    /\ UNCHANGED <<dbProducts, dbWd, nextId, cashierVars, reportVars,
                   toast, wd, page, saves, quota, unit, officeVars>>

handleEdit(transaction) ==
    /\ page = "reports"
    /\ rep.pc = "idle"
    /\ ~editDialogOpen
    /\ editingTransaction' = transaction
    /\ editItems' = transaction.transaction_items
    /\ editDialogOpen' = TRUE
    /\ UNCHANGED <<storeVars, cashierVars, transactions, rep, toast, wd, page, saves, quota, unit, officeVars>>

\* "Cancel", or the dialog's own close
closeEdit ==
    /\ rep.pc = "idle"
    /\ editDialogOpen
    /\ editDialogOpen' = FALSE
    /\ UNCHANGED <<storeVars, cashierVars, transactions, editingTransaction,
                   editItems, rep, toast, wd, page, saves, quota, unit, officeVars>>

\* the Payment Amount input of the edit dialog
setEditPayment(text) ==
    /\ rep.pc = "idle"
    /\ editDialogOpen
    /\ editingTransaction' =
          [editingTransaction EXCEPT !.payment_amount = OrZero(parseFloat(text))]
    /\ UNCHANGED <<storeVars, cashierVars, transactions, editDialogOpen,
                   editItems, rep, toast, wd, page, saves, quota, unit, officeVars>>

updateItemQuantity(itemId, quantity) ==
    /\ rep.pc = "idle"
    /\ editDialogOpen
    /\ editItems' = [n \in 1..Len(editItems) |->
                        IF editItems[n].id = itemId
                        THEN [editItems[n] EXCEPT
                                 !.quantity = quantity,
                                 !.subtotal = quantity * editItems[n].price]
                        ELSE editItems[n]]
    /\ UNCHANGED <<storeVars, cashierVars, transactions, editDialogOpen,
                   editingTransaction, rep, toast, wd, page, saves, quota, unit, officeVars>>

updateItemPrice(itemId, price) ==
    /\ rep.pc = "idle"
    /\ editDialogOpen
    /\ editItems' = [n \in 1..Len(editItems) |->
                        IF editItems[n].id = itemId
                        THEN [editItems[n] EXCEPT
                                 !.price = price,
                                 !.subtotal = editItems[n].quantity * price]
                        ELSE editItems[n]]
    /\ UNCHANGED <<storeVars, cashierVars, transactions, editDialogOpen,
                   editingTransaction, rep, toast, wd, page, saves, quota, unit, officeVars>>

\* editItems.reduce((sum, item) => sum + item.subtotal, 0)
RECURSIVE reduceSubtotals(_, _)
reduceSubtotals(items, sum) ==
    IF items = <<>> THEN sum
    ELSE reduceSubtotals(Tail(items), sum + Head(items).subtotal)

\* handleSaveEdit up to its first await: the header update is sent
handleSaveEdit ==
    /\ rep.pc = "idle"
    /\ editDialogOpen
    /\ editingTransaction # NoTx
    /\ saves < MaxEdits
    /\ saves' = saves + 1
    /\ rep' = [pc |-> "save_header", tx |-> editingTransaction,
               items |-> editItems, newTotal |-> reduceSubtotals(editItems, 0),
               i |-> 0,
               sent |-> {Request("update", "transactions", editingTransaction.id)}]
    /\ UNCHANGED <<storeVars, cashierVars, transactions, editDialogOpen,
                   editingTransaction, editItems, toast, wd, page, quota, unit, officeVars>>

\* mutant: the header update leaves the stored change as it was
updateHeader_KeepsChange(table, id, newTotal, payment) ==
    IF id \in DOMAIN table
    THEN [table EXCEPT ![id].total_amount = Decimal2(newTotal),
                       ![id].payment_amount = Decimal2(payment)]
    ELSE table

\* update(...).eq("id", id): a row that is gone is no error
updateHeader(table, id, newTotal, payment) ==
    IF id \in DOMAIN table
    THEN [table EXCEPT ![id] = [total_amount |-> Decimal2(newTotal),
                                payment_amount |-> Decimal2(payment),
                                change_amount |-> Decimal2(payment - newTotal)]]
    ELSE table

updateItem(table, item) ==
    IF item.id \in DOMAIN table
    THEN [table EXCEPT ![item.id].quantity = item.quantity,
                       ![item.id].price = Decimal2(item.price),
                       ![item.id].subtotal = Decimal2(item.quantity * item.price)]
    ELSE table

\* after the awaited update number done (0: the header): the next item update
\* is sent, or the loop is over and the handler finishes
saveContinue(done) ==
    IF done < Len(rep.items)
    THEN /\ rep' = [rep EXCEPT !.pc = "save_items", !.i = done + 1,
                               !.sent = {Request("update", "transaction_items",
                                                 rep.items[done + 1].id)}]
         /\ UNCHANGED <<editDialogOpen, toast>>
    ELSE /\ toast' = "Transaction updated successfully"
         /\ editDialogOpen' = FALSE
         /\ rep' = FetchSent

saveHeaderOk ==
    /\ rep.pc = "save_header"
    /\ dbTx' = updateHeader(dbTx, rep.tx.id, rep.newTotal, rep.tx.payment_amount)
    /\ saveContinue(0)
    /\ UNCHANGED <<dbProducts, dbItems, dbWd, nextId, cashierVars, transactions,
                   editingTransaction, editItems, wd, page, saves, quota, unit, officeVars>>

saveHeaderError ==
    /\ rep.pc = "save_header"
    /\ toast' = "Failed to update transaction"
    /\ rep' = RepIdle
    /\ UNCHANGED <<storeVars, cashierVars, transactions, editDialogOpen,
                   editingTransaction, editItems, wd, page, saves, quota, unit, officeVars>>

saveItemOk ==
    /\ rep.pc = "save_items"
    /\ dbItems' = updateItem(dbItems, rep.items[rep.i])
    /\ saveContinue(rep.i)
    /\ UNCHANGED <<dbProducts, dbTx, dbWd, nextId, cashierVars, transactions,
                   editingTransaction, editItems, wd, page, saves, quota, unit, officeVars>>

\* mutant: a failed item update closes the edit dialog
saveItemError_ClosesDialog ==
    /\ rep.pc = "save_items"
    /\ toast' = "Failed to update items"
    /\ rep' = RepIdle
    /\ editDialogOpen' = FALSE
    /\ UNCHANGED <<storeVars, cashierVars, transactions,
                   editingTransaction, editItems, wd, page, saves, quota, unit, officeVars>>

saveItemError ==
    /\ rep.pc = "save_items"
    /\ toast' = "Failed to update items"
    /\ rep' = RepIdle
    /\ UNCHANGED <<storeVars, cashierVars, transactions, editDialogOpen,
                   editingTransaction, editItems, wd, page, saves, quota, unit, officeVars>>

----------------------------------------------------------------------------
(* Withdrawals: the page of each session.  Session 1 is the first browser
   tab, which shows the page after navigating to it; the other sessions are
   tabs that stay on the page. *)

WSessions == 1..MaxSessions

WithdrawalNames == {<<" ">>, <<"k">>}
WithdrawalAmountTexts == {"", "0", "2"}

OpIdle == [pc |-> "idle"]

\* the state of the page before its mount effect
WdInit == [withdrawals |-> <<>>, totalRevenue |-> 0, withdrawalName |-> <<>>,
           withdrawalAmount |-> "", op |-> OpIdle, fetch |-> "idle",
           toast |-> "none"]

\* the page with the fetchData of its mount effect in flight
WdMounted == [WdInit EXCEPT !.fetch = "revenue"]

Mounted(s) == s # 1 \/ page = "withdrawals"

\* withdrawals.reduce((sum, w) => sum + w.amount, 0)
RECURSIVE reduceAmounts(_, _)
reduceAmounts(rows, sum) ==
    IF rows = <<>> THEN sum
    ELSE reduceAmounts(Tail(rows), sum + Head(rows).amount)

\* transactions?.reduce((sum, t) => sum + t.total_amount, 0) || 0
RECURSIVE reduceRevenue(_, _)
reduceRevenue(rows, sum) ==
    IF rows = <<>> THEN sum
    ELSE reduceRevenue(Tail(rows), sum + Head(rows).total_amount)

availableBalance(s) ==
    wd[s].totalRevenue - reduceAmounts(wd[s].withdrawals, 0)

\* inserted withdrawals and inserts in flight
WithdrawalsClaimed ==
    (nextId.wd - 1) + Cardinality({s \in WSessions : wd[s].op.pc = "insert"})

wdUnchanged ==
    UNCHANGED <<dbProducts, dbTx, dbItems, cashierVars, reportVars, toast,
                page, saves, quota, unit, officeVars>>

setWithdrawalName(s, name) ==
    /\ Mounted(s)
    /\ WithdrawalsClaimed < MaxWd
    /\ wd' = [wd EXCEPT ![s].withdrawalName = name]
    /\ UNCHANGED <<dbWd, nextId>>
    /\ wdUnchanged

setWithdrawalAmount(s, text) ==
    /\ Mounted(s)
    /\ WithdrawalsClaimed < MaxWd
    /\ wd' = [wd EXCEPT ![s].withdrawalAmount = text]
    /\ UNCHANGED <<dbWd, nextId>>
    /\ wdUnchanged

\* fetchData: the select of the transaction totals returns
fetchRevenueOk(s) ==
    /\ wd[s].fetch = "revenue"
    /\ LET ks == Ascending(DOMAIN dbTx)
           rows == [n \in 1..Len(ks) |-> [total_amount |-> dbTx[ks[n]].total_amount]]
       IN wd' = [wd EXCEPT ![s].totalRevenue = OrZero(reduceRevenue(rows, 0)),
                           ![s].fetch = "withdrawals"]
    /\ UNCHANGED <<dbWd, nextId>>
    /\ wdUnchanged

\* an error of the first select is reported and fetchData goes on
fetchRevenueError(s) ==
    /\ wd[s].fetch = "revenue"
    /\ wd' = [wd EXCEPT ![s].toast = "Failed to load revenue data",
                        ![s].fetch = "withdrawals"]
    /\ UNCHANGED <<dbWd, nextId>>
    /\ wdUnchanged

\* select("*").order("withdrawal_date", descending) on withdrawals
selectWithdrawals ==
    LET ks == Descending(DOMAIN dbWd)
    IN [n \in 1..Len(ks) |-> Row(dbWd, ks[n])]

fetchWithdrawalsOk(s) ==
    /\ wd[s].fetch = "withdrawals"
    /\ wd' = [wd EXCEPT ![s].withdrawals = selectWithdrawals,
                        ![s].fetch = "idle"]
    /\ UNCHANGED <<dbWd, nextId>>
    /\ wdUnchanged

fetchWithdrawalsError(s) ==
    /\ wd[s].fetch = "withdrawals"
    /\ wd' = [wd EXCEPT ![s].toast = "Failed to load withdrawals",
                        ![s].fetch = "idle"]
    /\ UNCHANGED <<dbWd, nextId>>
    /\ wdUnchanged

\* mutant: the insert is sent without the balance check
handleAddWithdrawal_NoBalanceCheck(s) ==
    /\ Mounted(s)
    /\ wd[s].op.pc = "idle"
    /\ LET amount == parseFloat(wd[s].withdrawalAmount)
       IN IF trim(wd[s].withdrawalName) = <<>>
          THEN wd' = [wd EXCEPT ![s].toast = "Withdrawal name is required"]
          ELSE IF isNaN(amount) \/ LessEq(amount, 0)
          THEN wd' = [wd EXCEPT ![s].toast =
                         "Please enter a valid withdrawal amount"]
          ELSE /\ WithdrawalsClaimed < MaxWd
               /\ wd' = [wd EXCEPT ![s].op =
                            [pc |-> "insert", name |-> wd[s].withdrawalName,
                             amount |-> amount]]
    /\ UNCHANGED <<dbWd, nextId>>
    /\ wdUnchanged

\* mutant: an amount of 0 passes the validation
handleAddWithdrawal_AcceptsZero(s) ==
    /\ Mounted(s)
    /\ wd[s].op.pc = "idle"
    /\ LET amount == parseFloat(wd[s].withdrawalAmount)
       IN IF trim(wd[s].withdrawalName) = <<>>
          THEN wd' = [wd EXCEPT ![s].toast = "Withdrawal name is required"]
          ELSE IF isNaN(amount)
          THEN wd' = [wd EXCEPT ![s].toast =
                         "Please enter a valid withdrawal amount"]
          ELSE IF Less(availableBalance(s), amount)
          THEN wd' = [wd EXCEPT ![s].toast =
                         "Withdrawal amount cannot exceed available balance"]
          ELSE /\ WithdrawalsClaimed < MaxWd
               /\ wd' = [wd EXCEPT ![s].op =
                            [pc |-> "insert", name |-> wd[s].withdrawalName,
                             amount |-> amount]]
    /\ UNCHANGED <<dbWd, nextId>>
    /\ wdUnchanged

\* handleAddWithdrawal up to its await: validation, then the insert is sent
handleAddWithdrawal(s) ==
    /\ Mounted(s)
    /\ wd[s].op.pc = "idle"
    /\ LET amount == parseFloat(wd[s].withdrawalAmount)
       IN IF trim(wd[s].withdrawalName) = <<>>
          THEN wd' = [wd EXCEPT ![s].toast = "Withdrawal name is required"]
          ELSE IF isNaN(amount) \/ LessEq(amount, 0)
          THEN wd' = [wd EXCEPT ![s].toast =
                         "Please enter a valid withdrawal amount"]
          ELSE IF Less(availableBalance(s), amount)
          THEN wd' = [wd EXCEPT ![s].toast =
                         "Withdrawal amount cannot exceed available balance"]
          ELSE /\ WithdrawalsClaimed < MaxWd
               /\ wd' = [wd EXCEPT ![s].op =
                            [pc |-> "insert", name |-> wd[s].withdrawalName,
                             amount |-> amount]]
    /\ UNCHANGED <<dbWd, nextId>>
    /\ wdUnchanged

\* the insert succeeds: the form is cleared and fetchData is called (one
\* fetchData of a session is in flight at a time)
withdrawalInsertOk(s) ==
    /\ wd[s].op.pc = "insert"
    /\ wd[s].fetch = "idle"
    /\ dbWd' = (nextId.wd :> [withdrawal_name |-> wd[s].op.name,
                              amount |-> wd[s].op.amount]) @@ dbWd
    /\ nextId' = [nextId EXCEPT !.wd = @ + 1]
    /\ wd' = [wd EXCEPT ![s].toast = "Withdrawal added successfully",
                        ![s].withdrawalName = <<>>,
                        ![s].withdrawalAmount = "",
                        ![s].op = OpIdle,
                        ![s].fetch = "revenue"]
    /\ wdUnchanged

withdrawalInsertError(s) ==
    /\ wd[s].op.pc = "insert"
    /\ wd' = [wd EXCEPT ![s].toast = "Failed to add withdrawal",
                        ![s].op = OpIdle]
    /\ UNCHANGED <<dbWd, nextId>>
    /\ wdUnchanged

\* handleDelete of the Withdrawals page after confirm(): the delete is sent
handleDeleteWithdrawal(s, id) ==
    /\ Mounted(s)
    /\ wd[s].op.pc = "idle"
    /\ wd' = [wd EXCEPT ![s].op = [pc |-> "delete", id |-> id]]
    /\ UNCHANGED <<dbWd, nextId>>
    /\ wdUnchanged

deleteWithdrawalOk(s) ==
    /\ wd[s].op.pc = "delete"
    /\ wd[s].fetch = "idle"
    /\ dbWd' = Without(dbWd, {wd[s].op.id})
    /\ wd' = [wd EXCEPT ![s].toast = "Withdrawal deleted successfully",
                        ![s].op = OpIdle,
                        ![s].fetch = "revenue"]
    /\ UNCHANGED nextId
    /\ wdUnchanged

deleteWithdrawalError(s) ==
    /\ wd[s].op.pc = "delete"
    /\ wd' = [wd EXCEPT ![s].toast = "Failed to delete withdrawal",
                        ![s].op = OpIdle]
    /\ UNCHANGED <<dbWd, nextId>>
    /\ wdUnchanged

\* a tab that stays on the page is reloaded
reloadWithdrawals(s) ==
    /\ s # 1
    /\ wd[s].op.pc = "idle" /\ wd[s].fetch = "idle"
    /\ WithdrawalsClaimed < MaxWd
    /\ wd' = [wd EXCEPT ![s] = WdMounted]
    /\ UNCHANGED <<dbWd, nextId>>
    /\ wdUnchanged

WithdrawalsNext(s) ==
    \/ \E name \in WithdrawalNames : setWithdrawalName(s, name)
    \/ \E text \in WithdrawalAmountTexts : setWithdrawalAmount(s, text)
    \/ fetchRevenueOk(s)
    \/ fetchRevenueError(s)
    \/ fetchWithdrawalsOk(s)
    \/ fetchWithdrawalsError(s)
    \/ handleAddWithdrawal(s)
    \/ withdrawalInsertOk(s)
    \/ withdrawalInsertError(s)
    \/ \E n \in 1..Len(wd[s].withdrawals) :
          handleDeleteWithdrawal(s, wd[s].withdrawals[n].id)
    \/ deleteWithdrawalOk(s)
    \/ deleteWithdrawalError(s)

----------------------------------------------------------------------------
(* Navigation: the sidebar links; a page left is unmounted and its state is
   gone, a page entered starts from its initial state and runs its mount
   effect.  The links are followed while no handler of the page is in flight. *)

Pages == {"cashier", "reports", "withdrawals"}

Quiescent ==
    /\ \A h \in Slots : pay[h].pc = "idle"
    /\ rep.pc = "idle"
    /\ wd[1].op.pc = "idle" /\ wd[1].fetch = "idle"

navigate(to) ==
    /\ page # to
    /\ Quiescent
    /\ page' = to
    /\ products' = <<>>
    /\ cart' = <<>>
    /\ paymentAmount' = ""
    /\ showPayment' = FALSE
    /\ pay' = [h \in Slots |-> IdlePay]
    /\ transactions' = <<>>
    /\ editDialogOpen' = FALSE
    /\ editingTransaction' = NoTx
    /\ editItems' = <<>>
    /\ rep' = IF to = "reports" THEN FetchSent ELSE RepIdle
    /\ wd' = [wd EXCEPT ![1] = IF to = "withdrawals" THEN WdMounted ELSE WdInit]
    /\ UNCHANGED <<storeVars, receipt, toast, saves, quota, unit, officeVars>>

----------------------------------------------------------------------------
(* Texts of product codes: strings over "P" and the digits *)

Digits == "0123456789"

CharAt(text, i) == SubSeq(text, i, i)

IsDigit(c) == \E d \in 0..9 : CharAt(Digits, d + 1) = c

DigitOf(c) == CHOOSE d \in 0..9 : CharAt(Digits, d + 1) = c

\* String.prototype.trim on a text
RECURSIVE trimText(_)
trimText(text) ==
    IF Len(text) > 0 /\ CharAt(text, 1) = " "
    THEN trimText(SubSeq(text, 2, Len(text)))
    ELSE IF Len(text) > 0 /\ CharAt(text, Len(text)) = " "
         THEN trimText(SubSeq(text, 1, Len(text) - 1))
         ELSE text

\* text.substring(1)
substring1(text) == SubSeq(text, 2, Len(text))

\* the number of digits a text starts with
RECURSIVE DigitPrefix(_)
DigitPrefix(text) ==
    IF Len(text) > 0 /\ IsDigit(CharAt(text, 1))
    THEN 1 + DigitPrefix(substring1(text))
    ELSE 0

\* the value of a text of digits
RECURSIVE DigitsValue(_)
DigitsValue(text) ==
    IF Len(text) = 0 THEN 0
    ELSE 10 * DigitsValue(SubSeq(text, 1, Len(text) - 1))
           + DigitOf(CharAt(text, Len(text)))

\* parseInt on an unsigned text: the digits it starts with, NaN without any
parseIntPrefix(text) ==
    LET t == trimText(text)
    IN IF DigitPrefix(t) = 0 THEN NaN
       ELSE DigitsValue(SubSeq(t, 1, DigitPrefix(t)))

\* num.toString()
numberToString(num) == IF isNaN(num) THEN "NaN" ELSE ToString(num)

\* text.padStart(width, "0")
RECURSIVE padStart(_, _)
padStart(text, width) ==
    IF Len(text) >= width THEN text ELSE padStart("0" \o text, width)

\* the order of the store on code texts: character by character, a digit
\* before a letter, a text before its extensions
CharRank(c) == IF c = " " THEN 0 ELSE IF IsDigit(c) THEN 1 + DigitOf(c) ELSE 11

RECURSIVE TextLess(_, _)
TextLess(a, b) ==
    IF Len(b) = 0 THEN FALSE
    ELSE IF Len(a) = 0 THEN TRUE
    ELSE IF CharAt(a, 1) = CharAt(b, 1)
         THEN TextLess(substring1(a), substring1(b))
         ELSE CharRank(CharAt(a, 1)) < CharRank(CharAt(b, 1))

----------------------------------------------------------------------------
(* Products: the page of each session, a browser tab showing it *)

Tabs == 1..MaxSessions

ProductCodeTexts == {"", "P999"}
ProductNameTexts == {<<"N">>}
ProductPriceTexts == {"1"}

NoProduct == [id |-> 0]

EmptyForm == [code |-> "", name |-> <<>>, price |-> ""]

\* the page as mounted: fetchProducts of the mount effect is in flight
PrMounted == [products |-> <<>>, open |-> FALSE, editingProduct |-> NoProduct,
              formData |-> EmptyForm, op |-> OpIdle, fetch |-> "sent",
              toast |-> "none"]

Codes(rows) == {rows[i].code : i \in 1..Len(rows)}

\* order("code", { ascending: true }) over a set of rows with distinct codes
RECURSIVE OrderByCode(_)
OrderByCode(rows) ==
    IF rows = {} THEN <<>>
    ELSE LET first == CHOOSE r \in rows :
                         \A q \in rows :
                            \/ q = r
                            \/ TextLess(r.code, q.code)
                            \/ r.code = q.code /\ r.id < q.id
         IN <<first>> \o OrderByCode(rows \ {first})

Rows(table) == {table[i] : i \in 1..Len(table)}

\* select("code").order("code", { ascending: false }).limit(1)
selectLastCode(table) ==
    IF table = <<>> THEN <<>> ELSE <<[code |-> table[Len(table)].code]>>

\* the code generateNextCode returns for the data of its select; NoData is
\* the data of a select that returned an error
NoData == <<[error |-> TRUE]>>

nextCodeOf(data) ==
    IF data # NoData /\ Len(data) > 0
    THEN LET lastCode == data[1].code
             num == IF isNaN(parseIntPrefix(substring1(lastCode))) THEN NaN
                    ELSE parseIntPrefix(substring1(lastCode)) + 1
         IN "P" \o padStart(numberToString(num), 3)
    ELSE "P001"

prUnchanged ==
    UNCHANGED <<dbTx, dbItems, dbWd, dbOrders, clock, po, cashierVars,
                reportVars, toast, wd, page, saves, quota, unit>>

setFormData(s, field, text) ==
    /\ pr[s].open
    /\ pr[s].op.pc = "idle"
    /\ pr[s].formData[field] # text
    /\ pr' = [pr EXCEPT ![s].formData[field] = text]
    /\ UNCHANGED <<dbProducts, nextId>>
    /\ prUnchanged

\* "Tambah Produk": setEditingProduct(null), and the trigger opens the dialog
openAddProduct(s) ==
    /\ ~pr[s].open
    /\ pr[s].op.pc = "idle"
    /\ pr' = [pr EXCEPT ![s].open = TRUE, ![s].editingProduct = NoProduct]
    /\ UNCHANGED <<dbProducts, nextId>>
    /\ prUnchanged

\* the pencil button of row i of the list
handleEditProduct(s, i) ==
    /\ i \in 1..Len(pr[s].products)
    /\ ~pr[s].open
    /\ pr[s].op.pc = "idle"
    /\ LET product == pr[s].products[i] IN
         pr' = [pr EXCEPT ![s].editingProduct = product,
                          ![s].formData = [code |-> product.code,
                                           name |-> product.name,
                                           price |-> NumeralOf(product.price)],
                          ![s].open = TRUE]
    /\ UNCHANGED <<dbProducts, nextId>>
    /\ prUnchanged

\* "Cancel"
handleClose(s) ==
    /\ pr[s].open
    /\ pr[s].op.pc = "idle"
    /\ pr' = [pr EXCEPT ![s].open = FALSE, ![s].editingProduct = NoProduct,
                        ![s].formData = EmptyForm]
    /\ UNCHANGED <<dbProducts, nextId>>
    /\ prUnchanged

\* the product the form holds, under a code
productData(form, code) ==
    [code |-> code, name |-> trim(form.name), price |-> parseFloat(form.price)]

\* the request handleSubmit sends once it has a code
writeRequest(editing, data) ==
    IF editing # NoProduct
    THEN [pc |-> "update", id |-> editing.id, data |-> data]
    ELSE [pc |-> "insert", data |-> data]

\* the form is submitted: name and price are required, the price is a
\* number of at least 0; a blank code waits for generateNextCode
handleSubmitProduct(s) ==
    /\ pr[s].open
    /\ pr[s].op.pc = "idle"
    /\ pr[s].formData.name # <<>>
    /\ LessEq(0, parseFloat(pr[s].formData.price))
    /\ LET code == trimText(pr[s].formData.code) IN
         IF code = ""
         THEN pr' = [pr EXCEPT ![s].op =
                        [pc |-> "generate", form |-> pr[s].formData,
                         editing |-> pr[s].editingProduct]]
         ELSE pr' = [pr EXCEPT ![s].op =
                        writeRequest(pr[s].editingProduct,
                                     productData(pr[s].formData, code))]
    /\ UNCHANGED <<dbProducts, nextId>>
    /\ prUnchanged

\* the select of generateNextCode returns with rows or with an error, which
\* generateNextCode does not look at
generateNextCode(s, data) ==
    /\ pr[s].op.pc = "generate"
    /\ pr' = [pr EXCEPT ![s].op =
                 writeRequest(pr[s].op.editing,
                              productData(pr[s].op.form, nextCodeOf(data)))
                 @@ [generatedFrom |-> data]]
    /\ UNCHANGED <<dbProducts, nextId>>
    /\ prUnchanged

\* after a successful write: fetchProducts() is sent and handleClose() runs
submitDone(s, message) ==
    pr' = [pr EXCEPT ![s].toast = message, ![s].fetch = "sent",
                     ![s].op = OpIdle, ![s].open = FALSE,
                     ![s].editingProduct = NoProduct,
                     ![s].formData = EmptyForm]

\* mutant: the store takes a row whatever its code
UniqueCode_Unchecked(table, code, id) == TRUE

\* code TEXT NOT NULL UNIQUE: no other row holds the code
UniqueCode(table, code, id) ==
    \A i \in 1..Len(table) : table[i].code = code => table[i].id = id

\* the rows the run may still add
ProductsLeft == nextId.product <= Len(Catalog) + MaxProducts

insertProductOk(s) ==
    /\ pr[s].op.pc = "insert"
    /\ ProductsLeft
    /\ UniqueCode(dbProducts, pr[s].op.data.code, 0)
    /\ ~isNaN(pr[s].op.data.price)
    /\ dbProducts' = OrderByCode(Rows(dbProducts) \cup
                        {[id |-> nextId.product,
                          code |-> pr[s].op.data.code,
                          name |-> pr[s].op.data.name,
                          price |-> Decimal2(pr[s].op.data.price)]})
    /\ nextId' = [nextId EXCEPT !.product = nextId.product + 1]
    /\ submitDone(s, "Product added successfully")
    /\ prUnchanged

\* the insert returns an error: the store refused the row, or did not answer
insertProductError(s) ==
    /\ pr[s].op.pc = "insert"
    /\ pr' = [pr EXCEPT ![s].toast = "Failed to add product", ![s].op = OpIdle]
    /\ UNCHANGED <<dbProducts, nextId>>
    /\ prUnchanged

\* update(...).eq("id", id): a row that is gone is no error
updateProductOk(s) ==
    /\ pr[s].op.pc = "update"
    /\ UniqueCode(dbProducts, pr[s].op.data.code, pr[s].op.id)
    /\ ~isNaN(pr[s].op.data.price)
    /\ dbProducts' = OrderByCode(
                        {IF r.id = pr[s].op.id
                         THEN [id |-> r.id,
                               code |-> pr[s].op.data.code,
                               name |-> pr[s].op.data.name,
                               price |-> Decimal2(pr[s].op.data.price)]
                         ELSE r : r \in Rows(dbProducts)})
    /\ submitDone(s, "Product updated successfully")
    /\ UNCHANGED nextId
    /\ prUnchanged

updateProductError(s) ==
    /\ pr[s].op.pc = "update"
    /\ pr' = [pr EXCEPT ![s].toast = "Failed to update product", ![s].op = OpIdle]
    /\ UNCHANGED <<dbProducts, nextId>>
    /\ prUnchanged

\* the confirm dialog was accepted: the delete is sent
handleDeleteProduct(s, i) ==
    /\ i \in 1..Len(pr[s].products)
    /\ ~pr[s].open
    /\ pr[s].op.pc = "idle"
    /\ pr' = [pr EXCEPT ![s].op = [pc |-> "delete", id |-> pr[s].products[i].id]]
    /\ UNCHANGED <<dbProducts, nextId>>
    /\ prUnchanged

deleteProductOk(s) ==
    /\ pr[s].op.pc = "delete"
    /\ dbProducts' = OrderByCode({r \in Rows(dbProducts) : r.id # pr[s].op.id})
    /\ pr' = [pr EXCEPT ![s].toast = "Product deleted successfully",
                        ![s].fetch = "sent", ![s].op = OpIdle]
    /\ UNCHANGED nextId
    /\ prUnchanged

deleteProductError(s) ==
    /\ pr[s].op.pc = "delete"
    /\ pr' = [pr EXCEPT ![s].toast = "Failed to delete product", ![s].op = OpIdle]
    /\ UNCHANGED <<dbProducts, nextId>>
    /\ prUnchanged

\* fetchProducts of the Products page
listProductsOk(s) ==
    /\ pr[s].fetch = "sent"
    /\ pr' = [pr EXCEPT ![s].products = dbProducts, ![s].fetch = "idle"]
    /\ UNCHANGED <<dbProducts, nextId>>
    /\ prUnchanged

listProductsError(s) ==
    /\ pr[s].fetch = "sent"
    /\ pr' = [pr EXCEPT ![s].toast = "Failed to load products",
                        ![s].fetch = "idle"]
    /\ UNCHANGED <<dbProducts, nextId>>
    /\ prUnchanged

\* rows a list of the Products page can show
ListRows == 1..(Len(Catalog) + MaxProducts)

\* adding products: the form, the generated code, the insert, the list
AddProductNext ==
    \/ \E s \in Tabs, text \in ProductCodeTexts : setFormData(s, "code", text)
    \/ \E s \in Tabs, text \in ProductNameTexts : setFormData(s, "name", text)
    \/ \E s \in Tabs, text \in ProductPriceTexts : setFormData(s, "price", text)
    \/ \E s \in Tabs : openAddProduct(s)
    \/ \E s \in Tabs : handleClose(s)
    \/ \E s \in Tabs : handleSubmitProduct(s)
    \/ \E s \in Tabs : generateNextCode(s, selectLastCode(dbProducts))
    \/ \E s \in Tabs : generateNextCode(s, NoData)
    \/ \E s \in Tabs : insertProductOk(s)
    \/ \E s \in Tabs : insertProductError(s)
    \/ \E s \in Tabs : listProductsOk(s)
    \/ \E s \in Tabs : listProductsError(s)

EditProductNext ==
    \/ \E s \in Tabs, i \in ListRows : handleEditProduct(s, i)
    \/ \E s \in Tabs : updateProductOk(s)
    \/ \E s \in Tabs : updateProductError(s)

DeleteProductNext ==
    \/ \E s \in Tabs, i \in ListRows : handleDeleteProduct(s, i)
    \/ \E s \in Tabs : deleteProductOk(s)
    \/ \E s \in Tabs : deleteProductError(s)

\* tab 1 adds products and edits the first row of its list, tab 2 adds
\* products; codes are left blank but for the edit, so that the tabs
\* compete for the generated code
CatalogNext ==
    \/ \E s \in Tabs : openAddProduct(s)
    \/ \E s \in Tabs, text \in ProductNameTexts : setFormData(s, "name", text)
    \/ \E s \in Tabs, text \in ProductPriceTexts :
          pr[s].formData.name # <<>> /\ setFormData(s, "price", text)
    \/ \E s \in Tabs : handleSubmitProduct(s)
    \/ \E s \in Tabs : generateNextCode(s, selectLastCode(dbProducts))
    \/ \E s \in Tabs : generateNextCode(s, NoData)
    \/ \E s \in Tabs : insertProductOk(s)
    \/ \E s \in Tabs : insertProductError(s)
    \/ \E s \in Tabs : listProductsOk(s)
    \/ handleEditProduct(1, 1)
    \/ pr[1].editingProduct # NoProduct /\ setFormData(1, "code", "P002")
    \/ updateProductOk(1)
    \/ updateProductError(1)

----------------------------------------------------------------------------
(* Printing Orders: the page of each session, a browser tab showing it *)

CustomerNameTexts == {"a"}
PhoneNumberTexts == {"1"}
OrderNameTexts == {" ", "k "}
IsPaidValues == {"false", "true"}

\* the page as mounted: fetchOrders of the mount effect is in flight
PoMounted == [orders |-> <<>>, customerName |-> "", phoneNumber |-> "",
              orderName |-> "", isPaid |-> "false", op |-> OpIdle,
              fetch |-> "sent", toast |-> "none"]

poUnchanged ==
    UNCHANGED <<dbProducts, dbTx, dbItems, dbWd, pr, cashierVars,
                reportVars, toast, wd, page, saves, quota, unit>>

\* the model follows the form until MaxOrders orders are stored
TakingOrders == nextId.order <= MaxOrders

setCustomerName(s, text) ==
    /\ TakingOrders
    /\ po[s].op.pc = "idle"
    /\ po[s].customerName # text
    /\ po' = [po EXCEPT ![s].customerName = text]
    /\ UNCHANGED <<dbOrders, clock, nextId>>
    /\ poUnchanged

setPhoneNumber(s, text) ==
    /\ TakingOrders
    /\ po[s].op.pc = "idle"
    /\ po[s].phoneNumber # text
    /\ po' = [po EXCEPT ![s].phoneNumber = text]
    /\ UNCHANGED <<dbOrders, clock, nextId>>
    /\ poUnchanged

setOrderName(s, text) ==
    /\ TakingOrders
    /\ po[s].op.pc = "idle"
    /\ po[s].orderName # text
    /\ po' = [po EXCEPT ![s].orderName = text]
    /\ UNCHANGED <<dbOrders, clock, nextId>>
    /\ poUnchanged

setIsPaid(s, value) ==
    /\ TakingOrders
    /\ po[s].op.pc = "idle"
    /\ po[s].isPaid # value
    /\ po' = [po EXCEPT ![s].isPaid = value]
    /\ UNCHANGED <<dbOrders, clock, nextId>>
    /\ poUnchanged

\* mutant: the form's payment status is not sent, the order starts unpaid
newOrder_Unpaid(name, phone, order, isPaid) ==
    [customer_name |-> name, phone_number |-> phone, order_name |-> order,
     is_paid |-> FALSE, is_completed |-> FALSE]

\* the row handleSubmit sends
newOrder(name, phone, order, isPaid) ==
    [customer_name |-> name, phone_number |-> phone, order_name |-> order,
     is_paid |-> (isPaid = "true"), is_completed |-> FALSE]

\* handleSubmit up to its await: the three checks, then the insert is sent
handleSubmitOrder(s) ==
    /\ TakingOrders
    /\ po[s].op.pc = "idle"
    /\ LET trimmedName == trimText(po[s].customerName)
           trimmedPhone == trimText(po[s].phoneNumber)
           trimmedOrder == trimText(po[s].orderName)
       IN IF trimmedName = ""
          THEN po' = [po EXCEPT ![s].toast = "Nama pelanggan tidak boleh kosong"]
          ELSE IF trimmedPhone = ""
          THEN po' = [po EXCEPT ![s].toast = "Nomor HP tidak boleh kosong"]
          ELSE IF trimmedOrder = ""
          THEN po' = [po EXCEPT ![s].toast = "Nama orderan tidak boleh kosong"]
          ELSE po' = [po EXCEPT ![s].op =
                         [pc |-> "insert",
                          row |-> newOrder(trimmedName, trimmedPhone,
                                           trimmedOrder, po[s].isPaid)]]
    /\ UNCHANGED <<dbOrders, clock, nextId>>
    /\ poUnchanged

\* the writes to printing_orders the run may still make
OrderWritesLeft == clock <= MaxWrites

\* the insert succeeds: created_at and updated_at default to now(); the form
\* is reset and fetchOrders() is sent
insertOrderOk(s) ==
    /\ po[s].op.pc = "insert"
    /\ TakingOrders
    /\ OrderWritesLeft
    /\ dbOrders' = (nextId.order :>
                      (po[s].op.row @@ [created_at |-> clock,
                                        updated_at |-> clock])) @@ dbOrders
    /\ nextId' = [nextId EXCEPT !.order = nextId.order + 1]
    /\ clock' = clock + 1
    /\ po' = [po EXCEPT ![s].toast = "Orderan berhasil ditambahkan",
                        ![s].customerName = "", ![s].phoneNumber = "",
                        ![s].orderName = "", ![s].isPaid = "false",
                        ![s].op = OpIdle, ![s].fetch = "sent"]
    /\ poUnchanged

insertOrderError(s) ==
    /\ po[s].op.pc = "insert"
    /\ po' = [po EXCEPT ![s].toast = "Gagal menambahkan orderan",
                        ![s].op = OpIdle]
    /\ UNCHANGED <<dbOrders, clock, nextId>>
    /\ poUnchanged

\* the button of row i of the session's list: the update is sent with the
\* negation of the status the list shows
handleToggleComplete(s, i) ==
    /\ i \in 1..Len(po[s].orders)
    /\ po[s].op.pc = "idle"
    /\ po' = [po EXCEPT ![s].op =
                 [pc |-> "toggle", id |-> po[s].orders[i].id,
                  currentStatus |-> po[s].orders[i].is_completed]]
    /\ UNCHANGED <<dbOrders, clock, nextId>>
    /\ poUnchanged

\* mutant: the update negates the status the store holds
updateCompleted_OfStore(table, id, currentStatus) ==
    IF id \in DOMAIN table
    THEN [table EXCEPT ![id].is_completed = ~table[id].is_completed,
                       ![id].updated_at = clock]
    ELSE table

\* update({ is_completed: !currentStatus }).eq("id", id); the trigger of the
\* table sets updated_at = now(); a row that is gone is no error
updateCompleted(table, id, currentStatus) ==
    IF id \in DOMAIN table
    THEN [table EXCEPT ![id].is_completed = ~currentStatus,
                       ![id].updated_at = clock]
    ELSE table

toggleCompleteOk(s) ==
    /\ po[s].op.pc = "toggle"
    /\ OrderWritesLeft
    /\ dbOrders' = updateCompleted(dbOrders, po[s].op.id, po[s].op.currentStatus)
    /\ clock' = clock + 1
    /\ po' = [po EXCEPT ![s].toast = IF po[s].op.currentStatus
                                     THEN "Orderan dipindahkan ke proses"
                                     ELSE "Orderan selesai",
                        ![s].op = OpIdle, ![s].fetch = "sent"]
    /\ UNCHANGED nextId
    /\ poUnchanged

toggleCompleteError(s) ==
    /\ po[s].op.pc = "toggle"
    /\ po' = [po EXCEPT ![s].toast = "Gagal mengubah status orderan",
                        ![s].op = OpIdle]
    /\ UNCHANGED <<dbOrders, clock, nextId>>
    /\ poUnchanged

\* the confirm dialog was accepted: the delete is sent
handleDeleteOrder(s, i) ==
    /\ i \in 1..Len(po[s].orders)
    /\ po[s].op.pc = "idle"
    /\ po' = [po EXCEPT ![s].op = [pc |-> "delete", id |-> po[s].orders[i].id]]
    /\ UNCHANGED <<dbOrders, clock, nextId>>
    /\ poUnchanged

deleteOrderOk(s) ==
    /\ po[s].op.pc = "delete"
    /\ dbOrders' = [id \in DOMAIN dbOrders \ {po[s].op.id} |-> dbOrders[id]]
    /\ po' = [po EXCEPT ![s].toast = "Orderan berhasil dihapus",
                        ![s].op = OpIdle, ![s].fetch = "sent"]
    /\ UNCHANGED <<clock, nextId>>
    /\ poUnchanged

deleteOrderError(s) ==
    /\ po[s].op.pc = "delete"
    /\ po' = [po EXCEPT ![s].toast = "Gagal menghapus orderan",
                        ![s].op = OpIdle]
    /\ UNCHANGED <<dbOrders, clock, nextId>>
    /\ poUnchanged

\* select("*").order("created_at", { ascending: false })
RECURSIVE OrderByCreatedDesc(_, _)
OrderByCreatedDesc(table, ids) ==
    IF ids = {} THEN <<>>
    ELSE LET last == CHOOSE id \in ids :
                        \A other \in ids :
                           table[other].created_at <= table[id].created_at
         IN <<table[last] @@ [id |-> last]>>
            \o OrderByCreatedDesc(table, ids \ {last})

fetchOrdersOk(s) ==
    /\ po[s].fetch = "sent"
    /\ po' = [po EXCEPT ![s].orders = OrderByCreatedDesc(dbOrders, DOMAIN dbOrders),
                        ![s].fetch = "idle"]
    /\ UNCHANGED <<dbOrders, clock, nextId>>
    /\ poUnchanged

fetchOrdersError(s) ==
    /\ po[s].fetch = "sent"
    /\ po' = [po EXCEPT ![s].toast = "Gagal memuat data orderan",
                        ![s].fetch = "idle"]
    /\ UNCHANGED <<dbOrders, clock, nextId>>
    /\ poUnchanged

\* the tab is reloaded: the page mounts again
reloadOrders(s) ==
    /\ po[s].op.pc = "idle"
    /\ po[s].fetch = "idle"
    /\ po[s] # [PoMounted EXCEPT !.fetch = "idle"]
    /\ po' = [po EXCEPT ![s] = PoMounted]
    /\ UNCHANGED <<dbOrders, clock, nextId>>
    /\ poUnchanged

\* rows a list of the Printing Orders page can show
OrderRows == 1..MaxOrders

\* tab 1 takes orders, both tabs work on the orders they list
OrdersNext ==
    \/ \E text \in CustomerNameTexts : setCustomerName(1, text)
    \/ \E text \in PhoneNumberTexts : setPhoneNumber(1, text)
    \/ \E text \in OrderNameTexts : setOrderName(1, text)
    \/ \E value \in IsPaidValues : setIsPaid(1, value)
    \/ handleSubmitOrder(1)
    \/ insertOrderOk(1)
    \/ insertOrderError(1)
    \/ \E s \in Tabs, i \in OrderRows : handleToggleComplete(s, i)
    \/ \E s \in Tabs : toggleCompleteOk(s)
    \/ \E s \in Tabs : toggleCompleteError(s)
    \/ \E s \in Tabs, i \in OrderRows : handleDeleteOrder(s, i)
    \/ \E s \in Tabs : deleteOrderOk(s)
    \/ \E s \in Tabs : deleteOrderError(s)
    \/ \E s \in Tabs : fetchOrdersOk(s)
    \/ \E s \in Tabs : fetchOrdersError(s)
    \/ reloadOrders(2)

----------------------------------------------------------------------------
(* Specifications *)

\* the state after construction, whatever the number of sales followed
Start ==
    /\ dbProducts = Catalog
    /\ dbTx = <<>>
    /\ dbItems = <<>>
    /\ dbWd = <<>>
    /\ nextId = [tx |-> 1, item |-> 1, wd |-> 1,
                 product |-> Len(Catalog) + 1, order |-> 1]
    /\ products = <<>>
    /\ cart = <<>>
    /\ paymentAmount = ""
    /\ showPayment = FALSE
    /\ pay = [h \in Slots |-> IdlePay]
    /\ toast = "none"
    /\ receipt = NoReceipt
    /\ transactions = <<>>
    /\ editDialogOpen = FALSE
    /\ editingTransaction = NoTx
    /\ editItems = <<>>
    /\ rep = RepIdle
    /\ wd = [s \in WSessions |-> IF s = 1 THEN WdInit ELSE WdMounted]
    /\ page = "cashier"
    /\ saves = 0
    /\ dbOrders = <<>>
    /\ clock = 1
    /\ pr = [s \in Tabs |-> PrMounted]
    /\ po = [s \in Tabs |-> PoMounted]

Init == Start /\ quota = MaxTx /\ unit = 1

\* as Init, with one more sale followed
InitSales == Start /\ quota = MaxTx + 1 /\ unit = 1

\* as Init, with amounts counted in half cents: the text "1" of an input
\* stands for 0.005, the price 2 of the catalog for 0.01
InitHalfCents == Start /\ quota = MaxTx /\ unit = 200

CartNext ==
    \/ fetchProducts
    \/ \E i \in 1..Len(products) : addToCart(products[i])
    \/ \E id \in 1..Len(Catalog), delta \in {-1, 1} : updateQuantity(id, delta)
    \/ \E id \in 1..Len(Catalog), text \in PriceTexts : updatePrice(id, text)
    \/ \E id \in 1..Len(Catalog), text \in NameTexts : updateName(id, text)
    \/ \E id \in 1..Len(Catalog) : removeFromCart(id)
    \/ clearCart

PaymentNext ==
    \/ openPayment
    \/ closePayment
    \/ \E text \in PaymentTexts : setPaymentAmount(text)
    \/ \E h \in Slots : handlePayment(h)
    \/ \E h \in Slots : paymentHeaderOk(h)
    \/ \E h \in Slots : paymentHeaderError(h)
    \/ \E h \in Slots : paymentItemsOk(h)
    \/ \E h \in Slots : paymentItemsError(h)

\* the cart operations while selling: the price of one line and the name of
\* the other are overridden, so that carts stay few
SaleCartNext ==
    \/ fetchProducts
    \/ \E i \in 1..Len(products) : addToCart(products[i])
    \/ \E id \in 1..Len(Catalog), delta \in {-1, 1} : updateQuantity(id, delta)
    \/ \E text \in PriceTexts : updatePrice(Len(Catalog), text)
    \/ \E text \in NameTexts : updateName(1, text)
    \/ \E id \in 1..Len(Catalog) : removeFromCart(id)
    \/ clearCart

Next == SaleCartNext \/ PaymentNext

Spec == Init /\ [][Next]_vars

\* two browser tabs on the Products page
SpecProducts == Init /\ [][AddProductNext]_vars

\* two browser tabs on the Products page that compete for generated codes
SpecCatalog == Init /\ [][CatalogNext]_vars

\* two browser tabs on the Printing Orders page
SpecOrders == Init /\ [][OrdersNext]_vars

\* as SpecOrders, where the tabs keep acting as long as they can
SpecOrdersFair == SpecOrders /\ WF_vars(OrdersNext)

\* the Cashier page with amounts of three fractional digits
SpecHalfCents == InitHalfCents /\ [][Next]_vars

\* selling from the catalog as it is (no overrides)
PlainCartNext ==
    \/ fetchProducts
    \/ \E i \in 1..Len(products) : addToCart(products[i])

\* two sales from the catalog as it is: the cart is emptied by a finished
\* checkout and by nothing else
SpecRetry == InitSales /\ [][PlainCartNext \/ PaymentNext]_vars

\* the Reports page: the list is reloaded and rows are deleted before the
\* edit dialog was used in this visit, and the dialog is opened while a save
\* is still allowed, so that the page's states stay few
ReportsNext ==
    \/ editingTransaction = NoTx /\ fetchTransactions
    \/ fetchTransactionsOk
    \/ fetchTransactionsError
    \/ \E r \in rep.sent : itemSelectOk(r.id)
    \/ \E r \in rep.sent : itemSelectError(r.id)
    \/ fetchItemsDone
    \/ /\ editingTransaction = NoTx
       /\ \E n \in 1..Len(transactions) : handleDelete(transactions[n].id)
    \/ deleteItemsDone
    \/ deleteTransactionOk
    \/ deleteTransactionError
    \/ /\ saves < MaxEdits
       /\ \E n \in 1..Len(transactions) : handleEdit(transactions[n])
    \/ closeEdit
    \/ \E text \in EditPaymentTexts : setEditPayment(text)
    \/ \E n \in 1..Len(editItems), text \in EditQuantityTexts :
          updateItemQuantity(editItems[n].id, OrZero(parseInt(text)))
    \/ \E n \in 1..Len(editItems), text \in EditPriceTexts :
          updateItemPrice(editItems[n].id, OrZero(parseFloat(text)))
    \/ handleSaveEdit
    \/ saveHeaderOk
    \/ saveHeaderError
    \/ saveItemOk
    \/ saveItemError

NavNext == \E to \in {"cashier", "reports"} : navigate(to)

\* one browser tab: selling on the Cashier page, then the Reports page
SpecReports ==
    Init /\ [][PlainCartNext \/ PaymentNext \/ NavNext \/ ReportsNext]_vars

RemoteNext ==
    \/ \E id \in 1..MaxTx + 1 : remoteDeleteItems(id)
    \/ \E id \in 1..MaxTx + 1 : remoteDeleteTransaction(id)

\* the Cashier page of one browser tab while another tab deletes sales on
\* its Reports page
SpecShared == InitSales /\ [][PlainCartNext \/ PaymentNext \/ RemoteNext]_vars

\* a sale of the last product of the catalog, paid with one amount
QuickSaleNext ==
    \/ fetchProducts
    \/ products # <<>> /\ addToCart(products[Len(products)])
    \/ openPayment
    \/ setPaymentAmount("5")
    \/ \E h \in Slots : handlePayment(h)
    \/ \E h \in Slots : paymentHeaderOk(h)
    \/ \E h \in Slots : paymentHeaderError(h)
    \/ \E h \in Slots : paymentItemsOk(h)
    \/ \E h \in Slots : paymentItemsError(h)

\* one browser tab and the pages that write the ledger
SpecFunds ==
    Init /\ [][\/ QuickSaleNext
               \/ \E to \in Pages : navigate(to)
               \/ ReportsNext
               \/ WithdrawalsNext(1)]_vars

\* the Withdrawals pages with a complete form: a name and an amount are
\* typed before the form is submitted
RaceNext ==
    \/ \E s \in WSessions : setWithdrawalName(s, <<"k">>)
    \/ \E s \in WSessions : setWithdrawalAmount(s, "2")
    \/ \E s \in WSessions : fetchRevenueOk(s)
    \/ \E s \in WSessions : fetchWithdrawalsOk(s)
    \/ \E s \in WSessions :
          /\ wd[s].withdrawalName # <<>> /\ wd[s].withdrawalAmount # ""
          /\ handleAddWithdrawal(s)
    \/ \E s \in WSessions : withdrawalInsertOk(s)
    \/ \E s \in WSessions : withdrawalInsertError(s)
    \/ \E s \in WSessions : reloadWithdrawals(s)

\* the first tab sells and then withdraws, the other tabs withdraw
SpecRace == Init /\ [][QuickSaleNext \/ navigate("withdrawals") \/ RaceNext]_vars

\* one browser tab: a sale, then the Withdrawals page
SpecWithdraw ==
    Init /\ [][\/ QuickSaleNext
               \/ \E to \in {"cashier", "withdrawals"} : navigate(to)
               \/ WithdrawalsNext(1)]_vars

\* the Reports page without its edit dialog
ListNext ==
    \/ fetchTransactionsOk
    \/ fetchTransactionsError
    \/ \E r \in rep.sent : itemSelectOk(r.id)
    \/ \E r \in rep.sent : itemSelectError(r.id)
    \/ fetchItemsDone
    \/ \E n \in 1..Len(transactions) : handleDelete(transactions[n].id)
    \/ deleteItemsDone
    \/ deleteTransactionOk
    \/ deleteTransactionError

\* one browser tab: two sales, and the list of the Reports page
SpecList == InitSales /\ [][QuickSaleNext \/ NavNext \/ ListNext]_vars

\* the cart alone
SpecCart == Init /\ [][CartNext]_vars

----------------------------------------------------------------------------
(* Properties of the cart and of checkout *)

\* the sum of displayPrice * quantity over a set of line positions
RECURSIVE LineSum(_, _)
LineSum(c, I) ==
    IF I = {} THEN 0
    ELSE LET i == CHOOSE j \in I : TRUE
         IN c[i].displayPrice * c[i].quantity + LineSum(c, I \ {i})

\* C3: after any sequence of cart operations the cart total equals the sum
\* over the current lines of displayPrice * quantity, and is 0 for a cart
\* without lines.
C3_TotalIsSumOfLines ==
    /\ totalAmount = LineSum(cart, DOMAIN cart)
    /\ (Len(cart) = 0 => totalAmount = 0)

\* a two-line cart with an overridden price, an overridden name and a
\* quantity above 1
C3_Witness ==
    /\ Len(cart) = 2
    /\ \E i \in 1..2 : cart[i].displayPrice # cart[i].product.price
    /\ \E i \in 1..2 : cart[i].displayName # cart[i].product.name
    /\ \E i \in 1..2 : cart[i].quantity = 2
    /\ totalAmount = 5

PaymentEntered == parseFloat(paymentAmount)

\* a step in which invocation h passes validation and sends the header insert
Accepted(h) == pay[h].pc = "idle" /\ pay'[h].pc = "header"

\* a step in which the validation of handlePayment fails
Rejected ==
    /\ toast # "Jumlah pembayaran tidak valid"
    /\ toast' = "Jumlah pembayaran tidak valid"

\* C2 as claimed: checkout is rejected whenever payment < total (or no
\* payment is entered), and whenever payment >= total it is accepted and
\* records change = payment - total.
C2_RejectedIffBelowTotal ==
    [][/\ \A h \in Slots :
            Accepted(h) =>
              /\ LessEq(totalAmount, PaymentEntered)
              /\ pay'[h].changeAmount = PaymentEntered - totalAmount
       /\ Rejected =>
            (isNaN(PaymentEntered) \/ Less(PaymentEntered, totalAmount))]_vars

\* C7: when validation fails nothing is sent to the store and the cart, the
\* entered amount, the dialog, the receipt and the ledger stay as they are;
\* and no invocation gets past a failing validation.
C7_RejectionChangesNothing ==
    [][/\ Rejected =>
            UNCHANGED <<storeVars, products, cart, paymentAmount, showPayment,
                        pay, receipt>>
       /\ \A h \in Slots :
            Accepted(h) =>
              ~(Not(PaymentEntered) \/ Less(PaymentEntered, totalAmount))]_vars

\* a rejection of a payment below the total, the dialog still open
C7_Witness ==
    /\ toast = "Jumlah pembayaran tidak valid"
    /\ showPayment
    /\ paymentAmount = "2"
    /\ totalAmount = 4
    /\ dbTx = <<>>
    /\ \A h \in Slots : pay[h].pc = "idle"

\* a step in which the header insert of invocation h returns its row
HeaderStored(h) == pay[h].pc = "header" /\ pay'[h].pc = "items"

\* a step in which the items insert of invocation h returns an error
ItemsFailed(h) ==
    /\ pay[h].pc = "items"
    /\ pay'[h].pc = "idle"
    /\ toast' = "Gagal menyimpan detail transaksi"

\* C8: when the header insert succeeds and the items insert fails, the
\* header stays in the ledger without item rows, no receipt is rendered and
\* cart, entered amount and dialog are not touched by either step.
C8_ItemsFailureKeepsHeader ==
    [][\A h \in Slots :
         /\ HeaderStored(h) =>
              /\ pay'[h].transactionId \in DOMAIN dbTx' \ DOMAIN dbTx
              /\ UNCHANGED <<cart, paymentAmount, showPayment, receipt, dbItems>>
         /\ ItemsFailed(h) =>
              /\ pay[h].transactionId \in DOMAIN dbTx'
              /\ dbTx' = dbTx
              /\ ItemsOf(dbItems', pay[h].transactionId) = {}
              /\ UNCHANGED <<cart, paymentAmount, showPayment, receipt, dbItems>>]_vars

\* after a failed items insert: a header without rows, the cart still filled
C8_Witness ==
    /\ toast = "Gagal menyimpan detail transaksi"
    /\ DOMAIN dbTx = {1}
    /\ dbTx[1].total_amount = 4
    /\ ItemsOf(dbItems, 1) = {}
    /\ Len(cart) = 2
    /\ showPayment
    /\ paymentAmount = "5"
    /\ receipt = NoReceipt

\* a step in which the items insert of invocation h succeeds
ItemsStored(h) ==
    /\ pay[h].pc = "items"
    /\ pay'[h].pc = "idle"
    /\ toast' = "Transaksi berhasil"

\* what the header and items steps of an accepted checkout do to the store
CheckoutWrites(h) ==
    /\ HeaderStored(h) =>
         /\ DOMAIN dbTx' = DOMAIN dbTx \cup {pay'[h].transactionId}
         /\ pay'[h].transactionId \notin DOMAIN dbTx
         /\ dbTx'[pay'[h].transactionId] =
               [total_amount |-> pay[h].totalAmount,
                payment_amount |-> pay[h].payment,
                change_amount |-> pay[h].changeAmount]
         /\ dbItems' = dbItems
         /\ pay'[h].log = <<"header">>
    /\ ItemsStored(h) =>
         /\ pay[h].log = <<"header">>
         /\ pay[h].transactionId \in DOMAIN dbTx
         /\ dbTx' = dbTx
         /\ Cardinality(DOMAIN dbItems' \ DOMAIN dbItems) = Len(pay[h].cart)
         /\ \A k \in DOMAIN dbItems \ DOMAIN dbItems' : FALSE
         /\ \A i \in 1..Len(pay[h].cart) :
               \E k \in DOMAIN dbItems' \ DOMAIN dbItems :
                  /\ dbItems'[k].transaction_id = pay[h].transactionId
                  /\ dbItems'[k].product_code = pay[h].cart[i].product.code
                  /\ dbItems'[k].quantity = pay[h].cart[i].quantity
                  /\ dbItems'[k].price = pay[h].cart[i].displayPrice
         /\ cart' = <<>>
         /\ paymentAmount' = ""
         /\ showPayment' = FALSE

\* C6 as claimed: header, then items, then the receipt, then the reset; the
\* receipt is rendered in every checkout that finishes.
C6_ReceiptAlwaysRendered ==
    [][\A h \in Slots :
         /\ CheckoutWrites(h)
         /\ ItemsStored(h) =>
              /\ pay'[h].log = <<"header", "items", "receipt", "reset">>
              /\ receipt' = receiptOf(pay[h])]_vars

\* C6 amended: header, then one item row per line of the cart the checkout
\* was called with, then the receipt when the receipt window opens (none
\* otherwise), then the reset; the cart is empty when the checkout finishes.
C6_CheckoutOrder ==
    [][\A h \in Slots :
         /\ CheckoutWrites(h)
         /\ ItemsStored(h) =>
              \/ /\ pay'[h].log = <<"header", "items", "receipt", "reset">>
                 /\ receipt' = receiptOf(pay[h])
              \/ /\ pay'[h].log = <<"header", "items", "reset">>
                 /\ receipt' = receipt]_vars

\* a finished checkout of a two-line cart with its receipt
C6_Witness ==
    /\ toast = "Transaksi berhasil"
    /\ \E h \in Slots : pay[h].log = <<"header", "items", "receipt", "reset">>
    /\ DOMAIN dbTx = {1}
    /\ Cardinality(ItemsOf(dbItems, 1)) = 2
    /\ receipt # NoReceipt
    /\ receipt.transactionId = 1
    /\ Len(receipt.items) = 2
    /\ cart = <<>>
    /\ paymentAmount = ""
    /\ ~showPayment

----------------------------------------------------------------------------
(* Properties of the ledger and of the report edit *)

\* the sum of subtotal over a set of rows of a table
RECURSIVE SubtotalSum(_, _)
SubtotalSum(table, K) ==
    IF K = {} THEN 0
    ELSE LET k == CHOOSE j \in K : TRUE
         IN table[k].subtotal + SubtotalSum(table, K \ {k})

\* C1: whenever no handler is in flight (after any sequence of checkouts,
\* report edits and report deletes, failed store calls included), the
\* total_amount of every stored transaction equals the sum of the subtotals
\* of the transaction_items rows that reference it.
C1_TotalIsSumOfItems ==
    Quiescent =>
        \A t \in DOMAIN dbTx :
            dbTx[t].total_amount = SubtotalSum(dbItems, ItemsOf(dbItems, t))

\* a step in which handleSaveEdit finishes with no store failure
SaveCompletes ==
    /\ rep.pc \in {"save_header", "save_items"}
    /\ rep'.pc = "fetch_tx"

\* the header row of the edited transaction, where stored, holds the new total,
\* the payment of the dialog and their difference
HeaderHolds(table) ==
    LET id == editingTransaction.id
        newTotal == SubtotalSum(editItems, DOMAIN editItems)
    IN id \in DOMAIN table =>
          /\ table[id].total_amount = newTotal
          /\ table[id].payment_amount = editingTransaction.payment_amount
          /\ table[id].change_amount =
                 editingTransaction.payment_amount - newTotal

\* the row of an item of the dialog, where stored, holds the edited values
ItemHolds(table, item) ==
    item.id \in DOMAIN table =>
        /\ table[item.id].quantity = item.quantity
        /\ table[item.id].price = item.price
        /\ table[item.id].subtotal = item.quantity * item.price

SameBut(old, new, k) ==
    /\ DOMAIN new = DOMAIN old
    /\ \A j \in DOMAIN old \ {k} : new[j] = old[j]

\* C10: handleSaveEdit updates the header first and then the item rows one
\* at a time in list order; when the update of an item fails, the header
\* update and the updates of the items before it stay committed, the items
\* after it are not updated, and the action stops with the dialog open.
C10_HeaderThenItemsInOrder ==
    [][/\ rep.pc = "save_header" =>
             /\ dbItems' = dbItems
             /\ rep'.pc = "save_items" => rep'.i = 1 /\ HeaderHolds(dbTx')
       /\ rep.pc = "save_items" =>
             /\ dbTx' = dbTx
             /\ HeaderHolds(dbTx)
             /\ \A m \in 1..(rep.i - 1) : ItemHolds(dbItems, editItems[m])
             /\ SameBut(dbItems, dbItems', editItems[rep.i].id)
             /\ rep'.pc = "save_items" =>
                    /\ rep'.i = rep.i + 1
                    /\ ItemHolds(dbItems', editItems[rep.i])
             /\ rep'.pc = "idle" =>
                    /\ dbItems' = dbItems
                    /\ editDialogOpen /\ editDialogOpen'
                    /\ toast' = "Failed to update items"]_vars

\* the update of the second item of an edit failed: the header and the first
\* item hold the edited values, the second item does not
C10_Witness ==
    /\ toast = "Failed to update items"
    /\ rep.pc = "idle"
    /\ editDialogOpen
    /\ Len(editItems) = 2
    /\ editingTransaction.id \in DOMAIN dbTx
    /\ dbTx[editingTransaction.id].total_amount = 6
    /\ editItems[1].quantity = 3 /\ dbItems[editItems[1].id].quantity = 3
    /\ editItems[2].quantity = 3 /\ dbItems[editItems[2].id].quantity # 3

----------------------------------------------------------------------------
(* Properties of the withdrawals *)

\* the sum of a column over a set of rows of a table
RECURSIVE ColumnSum(_, _, _)
ColumnSum(table, K, column) ==
    IF K = {} THEN 0
    ELSE LET k == CHOOSE j \in K : TRUE
         IN table[k][column] + ColumnSum(table, K \ {k}, column)

StoredWithdrawals == ColumnSum(dbWd, DOMAIN dbWd, "amount")
StoredRevenue == ColumnSum(dbTx, DOMAIN dbTx, "total_amount")

\* C4: in every state a single session reaches through checkout, add and
\* delete withdrawal, report edit and report delete, the sum of the stored
\* withdrawal amounts does not exceed the sum of the stored transaction
\* totals.
C4_WithdrawalsWithinRevenue == StoredWithdrawals <= StoredRevenue

\* a step in which the submission of session s passes validation
Submitted(s) == wd[s].op.pc = "idle" /\ wd'[s].op.pc = "insert"

\* a step in which the insert of session s is stored
Inserted(s) == wd[s].op.pc = "insert" /\ nextId'.wd = nextId.wd + 1

\* C5: the balance check of handleAddWithdrawal is made against the data the
\* session fetched and is not repeated at the insert: a submission passes
\* exactly on a positive amount within the balance of the session's own
\* snapshot, and its insert stores that amount whatever the store holds by
\* then, so two submissions validated against the same snapshot can both
\* be inserted and leave total withdrawals above total revenue.
C5_CheckedAgainstSnapshotOnly ==
    [][\A s \in WSessions :
          /\ Submitted(s) =>
                /\ wd'[s].op.amount > 0
                /\ wd'[s].op.amount <= availableBalance(s)
                /\ dbWd' = dbWd
          /\ Inserted(s) =>
                /\ DOMAIN dbWd' = DOMAIN dbWd \cup {nextId.wd}
                /\ dbWd'[nextId.wd].amount = wd[s].op.amount
                /\ \A k \in DOMAIN dbWd : dbWd'[k] = dbWd[k]]_vars

\* two sessions still hold the snapshot they validated against (revenue 2,
\* no withdrawals), both inserts are stored, and the store is overdrawn
C5_Witness ==
    /\ \A s \in WSessions :
          /\ wd[s].toast = "Withdrawal added successfully"
          /\ wd[s].fetch = "revenue"
          /\ wd[s].totalRevenue = 2
          /\ wd[s].withdrawals = <<>>
    /\ Cardinality(DOMAIN dbWd) = 2
    /\ StoredRevenue = 2
    /\ StoredWithdrawals = 4

\* the form of session s does not pass the validation of handleAddWithdrawal
InvalidForm(s) ==
    LET amount == parseFloat(wd[s].withdrawalAmount)
    IN \/ trim(wd[s].withdrawalName) = <<>>
       \/ isNaN(amount)
       \/ amount <= 0
       \/ amount > availableBalance(s)

ValidationToasts ==
    {"Withdrawal name is required",
     "Please enter a valid withdrawal amount",
     "Withdrawal amount cannot exceed available balance"}

\* a step in which handleAddWithdrawal of session s reports a rejection
RejectedWithdrawal(s) ==
    /\ wd'[s].toast \in ValidationToasts
    /\ wd'[s].toast # wd[s].toast

\* C11: handleAddWithdrawal is rejected whenever the name is blank or the
\* amount is not a number, is <= 0 or exceeds the balance computed from the
\* session's fetched data: no insert is sent, and the withdrawal ledger and
\* the form stay as they are; every stored withdrawal has amount > 0.
C11_InvalidWithdrawalRejected ==
    /\ [](\A k \in DOMAIN dbWd : dbWd[k].amount > 0)
    /\ [][\A s \in WSessions :
            /\ Submitted(s) => ~InvalidForm(s)
            /\ RejectedWithdrawal(s) =>
                  /\ InvalidForm(s)
                  /\ wd' = [wd EXCEPT ![s].toast = wd'[s].toast]
                  /\ UNCHANGED storeVars]_vars

\* revenue 2 and a withdrawal of 2 are fetched, and a request of 2 more was
\* rejected with the form left filled
C11_Witness ==
    /\ wd[1].toast = "Withdrawal amount cannot exceed available balance"
    /\ wd[1].op.pc = "idle"
    /\ wd[1].withdrawalName = <<"k">>
    /\ wd[1].withdrawalAmount = "2"
    /\ wd[1].totalRevenue = 2
    /\ Len(wd[1].withdrawals) = 1
    /\ availableBalance(1) = 0
    /\ StoredWithdrawals = 2

\* the sum of amount over the positions of a fetched list
RECURSIVE ListedAmounts(_, _)
ListedAmounts(rows, I) ==
    IF I = {} THEN 0
    ELSE LET i == CHOOSE j \in I : TRUE
         IN rows[i].amount + ListedAmounts(rows, I \ {i})

\* a step in which the fetchData of session s returns from its last select
FetchCompletes(s) == wd[s].fetch = "withdrawals" /\ wd'[s].fetch = "idle"

\* C12: the available balance shown and used for validation is the fetched
\* revenue minus the sum of the fetched withdrawals, and after any fetchData
\* that completes while no other session writes it equals the store's total
\* revenue minus the store's total withdrawals.
C12_BalanceMatchesStore ==
    /\ [](\A s \in WSessions :
            availableBalance(s) = wd[s].totalRevenue -
               ListedAmounts(wd[s].withdrawals, DOMAIN wd[s].withdrawals))
    /\ [][\A s \in WSessions :
            FetchCompletes(s) =>
               availableBalance(s)' = StoredRevenue' - StoredWithdrawals']_vars

----------------------------------------------------------------------------
(* Properties of the requests and of their failures *)

\* the requests in flight of checkout invocation h
PayRequests(h) ==
    IF pay[h].pc = "header" THEN {Request("insert", "transactions", 0)}
    ELSE IF pay[h].pc = "items"
    THEN {Request("insert", "transaction_items", pay[h].transactionId)}
    ELSE {}

\* the requests in flight of the add or delete of session s
WdOpRequests(s) ==
    IF wd[s].op.pc = "insert" THEN {Request("insert", "withdrawals", 0)}
    ELSE IF wd[s].op.pc = "delete"
    THEN {Request("delete", "withdrawals", wd[s].op.id)}
    ELSE {}

\* the requests in flight of the fetchData of session s
WdFetchRequests(s) ==
    IF wd[s].fetch = "revenue" THEN {Request("select", "transactions", 0)}
    ELSE IF wd[s].fetch = "withdrawals"
    THEN {Request("select", "withdrawals", 0)}
    ELSE {}

OneAtATime(requests) == Cardinality(requests) <= 1

\* C13 as claimed: no user action (with the reload it triggers) has two
\* store requests in flight at once.
C13_OneRequestPerAction ==
    /\ \A h \in Slots : OneAtATime(PayRequests(h))
    /\ \A s \in WSessions :
          OneAtATime(WdOpRequests(s)) /\ OneAtATime(WdFetchRequests(s))
    /\ OneAtATime(rep.sent)

\* C13: every user action has one store request in flight at a time, except
\* that fetchTransactions, once the select of the headers has returned,
\* sends the item selects of all listed transactions at once and waits for
\* all of them.
C13_OneRequestExceptItemSelects ==
    /\ [](/\ \A h \in Slots : OneAtATime(PayRequests(h))
          /\ \A s \in WSessions :
                OneAtATime(WdOpRequests(s)) /\ OneAtATime(WdFetchRequests(s))
          /\ rep.pc # "fetch_items" => OneAtATime(rep.sent)
          /\ rep.pc = "fetch_items" =>
                rep.sent \subseteq
                   {Request("select", "transaction_items", rep.rows[n].id) :
                       n \in 1..Len(rep.rows)})
    /\ [][rep.pc = "fetch_tx" /\ rep'.pc = "fetch_items" =>
             Cardinality(rep'.sent) = Cardinality(DOMAIN dbTx)]_vars

\* the item selects of two listed transactions are in flight together
C13_Witness ==
    /\ rep.pc = "fetch_items"
    /\ Len(rep.rows) = 2
    /\ Cardinality(rep.sent) = 2

\* request r of the Reports page returns in this step without its effect
ReportRequestFailed(r) ==
    /\ r \in rep.sent /\ r \notin rep'.sent
    /\ CASE r.op = "select" /\ r.table = "transactions" ->
               rep'.pc # "fetch_items"
         [] r.op = "select" /\ r.table = "transaction_items" ->
               rep'.fetched[r.id] = <<>> /\ ItemsOf(dbItems, r.id) # {}
         [] r.op = "delete" /\ r.table = "transaction_items" ->
               ItemsOf(dbItems', r.id) # {}
         [] r.op = "delete" /\ r.table = "transactions" ->
               r.id \in DOMAIN dbTx'
         [] r.op = "update" -> rep'.pc = "idle"

\* the request of checkout invocation h returns in this step without its effect
PayRequestFailed(h) ==
    \/ pay[h].pc = "header" /\ pay'[h].pc = "idle"
    \/ /\ pay[h].pc = "items" /\ pay'[h].pc = "idle"
       /\ ItemsOf(dbItems', pay[h].transactionId) = {}

ErrorToasts ==
    {"Gagal menyimpan transaksi", "Gagal menyimpan detail transaksi",
     "Failed to load reports", "Failed to delete transaction",
     "Failed to update transaction", "Failed to update items",
     "Failed to load revenue data", "Failed to load withdrawals",
     "Failed to add withdrawal", "Failed to delete withdrawal"}

\* C14: whenever a store operation of a user action fails, an error
\* notification is shown and the action stops: it sends no further store
\* operation and does not send the failed one again.
C14_FailureStopsAction ==
    [][/\ \A r \in rep.sent :
             ReportRequestFailed(r) =>
                toast' \in ErrorToasts /\ rep'.sent = {}
       /\ \A h \in Slots :
             PayRequestFailed(h) =>
                toast' \in ErrorToasts /\ PayRequests(h)' = {}
       /\ \A s \in WSessions :
             (wd'[s].toast \in ErrorToasts /\ wd'[s].toast # wd[s].toast) =>
                WdOpRequests(s)' = {} /\ WdFetchRequests(s)' = {}]_vars

----------------------------------------------------------------------------
(* Properties of the cart operations *)

\* cart c2 is cart c after adding product as C15 describes it
AddedTo(c, c2, product) ==
    IF \E i \in 1..Len(c) : c[i].product.id = product.id
    THEN /\ Len(c2) = Len(c)
         /\ \A i \in 1..Len(c) :
               IF c[i].product.id = product.id
               THEN /\ c2[i].quantity = c[i].quantity + 1
                    /\ c2[i].displayPrice = c[i].displayPrice
                    /\ c2[i].displayName = c[i].displayName
                    /\ c2[i].product = c[i].product
               ELSE c2[i] = c[i]
    ELSE /\ Len(c2) = Len(c) + 1
         /\ SubSeq(c2, 1, Len(c)) = c
         /\ c2[Len(c2)] = [product |-> product, quantity |-> 1,
                           displayPrice |-> product.price,
                           displayName |-> product.name]

\* C15: addToCart(product) raises the quantity of the product's line by 1
\* and leaves its display price, display name and position and all other
\* lines as they are, or, when the product has no line, appends one line
\* with quantity 1 and the product's price and name; a step that makes the
\* cart longer is such an append.
C15_AddToCart ==
    /\ [](\A n \in 1..Len(products) :
            AddedTo(cart, addToCartResult(cart, products[n]), products[n]))
    /\ [][Len(cart') > Len(cart) =>
             \E n \in 1..Len(products) :
                /\ ~InCart(cart, products[n].id)
                /\ AddedTo(cart, cart', products[n])]_vars

\* a line with an overridden price and name was added to again, and a line
\* of the other product was appended after it
C15_Witness ==
    /\ Len(cart) = 2
    /\ cart[1].quantity = 2
    /\ cart[1].displayPrice # cart[1].product.price
    /\ cart[1].displayName # cart[1].product.name
    /\ cart[2] = [product |-> cart[2].product, quantity |-> 1,
                  displayPrice |-> cart[2].product.price,
                  displayName |-> cart[2].product.name]

\* the deltas the function is applied to
Deltas == {-2, -1, 1}

\* the positions of c that updateQuantity(productId, delta) keeps
KeptLines(c, productId, delta) ==
    {i \in 1..Len(c) :
        c[i].product.id # productId \/ c[i].quantity + delta > 0}

\* cart c2 is cart c after updateQuantity(productId, delta) as C16 describes it
QuantityUpdated(c, c2, productId, delta) ==
    LET ks == Ascending(KeptLines(c, productId, delta))
    IN /\ Len(c2) = Len(ks)
       /\ \A n \in 1..Len(ks) :
             IF c[ks[n]].product.id = productId
             THEN c2[n] = [c[ks[n]] EXCEPT
                             !.quantity = Max(0, c[ks[n]].quantity + delta)]
             ELSE c2[n] = c[ks[n]]

\* C16: updateQuantity(productId, delta) sets the addressed line's quantity
\* to max(0, quantity + delta), removes the line when that is 0, and leaves
\* every other line as it is and in its order; after a step of the - and +
\* buttons no line has quantity 0 and every other line was in the cart.
C16_UpdateQuantity ==
    /\ [](\A id \in 1..Len(Catalog), delta \in Deltas :
            QuantityUpdated(cart, updateQuantityResult(cart, id, delta),
                            id, delta))
    /\ [][\A id \in 1..Len(Catalog), delta \in {-1, 1} :
             (InCart(cart, id) /\ cart' = updateQuantityResult(cart, id, delta)) =>
                /\ \A i \in 1..Len(cart') : cart'[i].quantity >= 1
                /\ \A i \in 1..Len(cart') :
                      cart'[i].product.id # id => \E j \in 1..Len(cart) : cart[j] = cart'[i]]_vars

\* the first line was taken to quantity 2 and the cart holds another line
\* that a decrement would remove
C16_Witness ==
    /\ Len(cart) = 2
    /\ cart[1].quantity = 2
    /\ cart[2].quantity = 1
    /\ Len(updateQuantityResult(cart, cart[2].product.id, -1)) = 1
    /\ updateQuantityResult(cart, cart[1].product.id, -1)[1].quantity = 1

\* C17: in every reachable cart every line has quantity >= 1; the - button
\* on a line of quantity 1 takes the line out of the cart.
C17_QuantityAtLeastOne ==
    /\ [](\A i \in 1..Len(cart) : cart[i].quantity >= 1)
    /\ [][\A i \in 1..Len(cart) :
             (/\ cart[i].quantity = 1
              /\ cart' = updateQuantityResult(cart, cart[i].product.id, -1)) =>
                ~InCart(cart', cart[i].product.id)]_vars

\* the product listed second has the first line, at the largest quantity,
\* before a line of quantity 1
C17_Witness ==
    /\ Len(cart) = 2
    /\ cart[1].product.id = Len(Catalog)
    /\ cart[1].quantity = MaxQty
    /\ cart[2].quantity = 1

PriceToast == "Harga harus lebih dari 0"
NameToast == "Nama produk tidak boleh kosong"

\* the cart after the line of product id took the value v in field f
LineSet(c, id, f, v) ==
    [i \in 1..Len(c) |->
        IF c[i].product.id = id THEN [c[i] EXCEPT ![f] = v] ELSE c[i]]

\* an edit step that was refused: a notification and the same cart
Refused(message) == toast' = message /\ cart' = cart

\* every updatePrice and updateName step refuses the texts in the given
\* sets and takes every other text into the line
EditsRefuseExactly(BadPrice(_), BadName(_)) ==
    /\ \A id \in 1..Len(Catalog), text \in PriceTexts :
          updatePrice(id, text) =>
             IF BadPrice(text)
             THEN Refused(PriceToast)
             ELSE /\ cart' = LineSet(cart, id, "displayPrice", parseFloat(text))
                  /\ toast' = toast
    /\ \A id \in 1..Len(Catalog), name \in NameTexts :
          updateName(id, name) =>
             IF BadName(name)
             THEN Refused(NameToast)
             ELSE /\ \E kept \in {name, trim(name)} :
                        cart' = LineSet(cart, id, "displayName", kept)
                  /\ toast' = toast

NotNumeric(text) == isNaN(parseFloat(text))
Negative(text) == ~isNaN(parseFloat(text)) /\ parseFloat(text) < 0
NotPositive(text) == ~isNaN(parseFloat(text)) /\ parseFloat(text) <= 0
EmptyName(name) == name = <<>>
BlankName(name) == trim(name) = <<>>

BadPriceAsStated(text) == NotNumeric(text) \/ Negative(text)
BadPriceAsCoded(text) == NotNumeric(text) \/ NotPositive(text)

\* C18 as stated: updatePrice refuses exactly the texts that are not numeric
\* or negative, updateName refuses exactly the empty name; a refused edit
\* shows a notification and leaves the cart unchanged.
C18_RejectsNegativeAndEmpty ==
    [][EditsRefuseExactly(BadPriceAsStated, EmptyName)]_vars

\* C18 amended: updatePrice refuses exactly the texts that are not numeric
\* or not above 0 (a price of 0 is refused), updateName refuses exactly the
\* names that are empty once trimmed; a refused edit shows a notification
\* and leaves the cart unchanged.
C18_RejectsNonPositiveAndBlank ==
    [][EditsRefuseExactly(BadPriceAsCoded, BlankName)]_vars

\* a name was refused on a cart whose line carries an accepted price
C18_Witness ==
    /\ toast = NameToast
    /\ \E i \in 1..Len(cart) : cart[i].displayPrice # cart[i].product.price

\* a step of updatePrice or updateName
OverrideStep ==
    \/ \E id \in 1..Len(Catalog), text \in PriceTexts : updatePrice(id, text)
    \/ \E id \in 1..Len(Catalog), name \in NameTexts : updateName(id, name)

\* a step of checkout
CheckoutStep ==
    \E h \in Slots :
       \/ handlePayment(h)
       \/ paymentHeaderOk(h)
       \/ paymentHeaderError(h)
       \/ paymentItemsOk(h)
       \/ paymentItemsError(h)

\* the step leaves the stored products, the loaded list and the product of
\* every line that stays in the cart as they were
ProductsKept ==
    /\ dbProducts' = dbProducts
    /\ products' = products
    /\ cart' # <<>> =>
          /\ Len(cart') = Len(cart)
          /\ \A i \in 1..Len(cart) : cart'[i].product = cart[i].product

\* the rows a finished checkout adds carry the lines' overrides
SnapshotWritten(h) ==
    LET c == pay[h].cart
        added == Ascending(DOMAIN dbItems' \ DOMAIN dbItems)
    IN /\ Len(added) = Len(c)
       /\ \A i \in 1..Len(c) :
             /\ dbItems'[added[i]].product_code = c[i].product.code
             /\ dbItems'[added[i]].product_name = c[i].displayName
             /\ dbItems'[added[i]].price = c[i].displayPrice

\* C19: updatePrice, updateName and checkout leave the product a line refers
\* to, the loaded product list and the stored products unchanged; checkout
\* writes the overrides into the transaction item rows only.
C19_OverridesStayOnTheLine ==
    /\ [](\A i \in 1..Len(cart) :
            \E p \in 1..Len(dbProducts) : cart[i].product = dbProducts[p])
    /\ [][(OverrideStep \/ CheckoutStep) => ProductsKept]_vars
    /\ [][\A h \in Slots : paymentItemsOk(h) => SnapshotWritten(h)]_vars

\* a sale is stored whose rows carry a price and a name other than those of
\* the products sold
C19_Witness ==
    /\ \E k \in DOMAIN dbItems, p \in 1..Len(dbProducts) :
          /\ dbItems[k].product_code = dbProducts[p].code
          /\ dbItems[k].price # dbProducts[p].price
    /\ \E k \in DOMAIN dbItems, p \in 1..Len(dbProducts) :
          /\ dbItems[k].product_code = dbProducts[p].code
          /\ dbItems[k].product_name # dbProducts[p].name

\* C20: in every reachable state of the store every transaction has
\* change_amount = payment_amount - total_amount, after checkout and after
\* any report edit, also one whose item updates fail part-way.
C20_ChangeIsPaymentMinusTotal ==
    \A t \in DOMAIN dbTx :
        dbTx[t].change_amount = dbTx[t].payment_amount - dbTx[t].total_amount

----------------------------------------------------------------------------
(* Properties of the Products page *)

\* session s gets the code of a blank-code submission from a select that
\* returned rows
CodeAssigned(s) ==
    /\ pr[s].op.pc = "generate"
    /\ pr'[s].op.pc \in {"insert", "update"}
    /\ pr'[s].op.generatedFrom # NoData

\* "P" and the number after the greatest code of the catalog, plus one, on
\* three digits; P001 for an empty catalog
ExpectedCode(table) ==
    IF table = <<>> THEN "P001"
    ELSE LET greatest == CHOOSE c \in Codes(table) :
                            \A d \in Codes(table) : d = c \/ TextLess(d, c)
         IN "P" \o padStart(ToString(parseIntPrefix(substring1(greatest)) + 1), 3)

\* C21: a product submitted with a blank code is assigned P001 in an empty
\* catalog and otherwise "P" and the number of the greatest code plus one on
\* three digits, and that code is not yet used in the catalog.
C21_NextUnusedCode ==
    [][\A s \in Tabs :
          CodeAssigned(s) =>
             /\ pr'[s].op.data.code = ExpectedCode(dbProducts)
             /\ pr'[s].op.data.code \notin Codes(dbProducts)]_vars

NoSharedCode ==
    \A i, j \in 1..Len(dbProducts) :
        dbProducts[i].code = dbProducts[j].code => i = j

\* the write of session s is answered while another row holds its code
WriteOfUsedCodeAnswered(s) ==
    /\ pr[s].op.pc \in {"insert", "update"}
    /\ pr'[s].op.pc = "idle"
    /\ ~UniqueCode(dbProducts, pr[s].op.data.code,
                   IF pr[s].op.pc = "update" THEN pr[s].op.id ELSE 0)

\* the answer is a failure notification and nothing else: the store, the
\* dialog and the form are as before
RefusedWrite(s) ==
    /\ dbProducts' = dbProducts
    /\ nextId' = nextId
    /\ pr' = [pr EXCEPT ![s].op = OpIdle,
                        ![s].toast = IF pr[s].op.pc = "insert"
                                     THEN "Failed to add product"
                                     ELSE "Failed to update product"]

\* C22: no two products of the catalog share a code; when two sessions
\* submit a blank code at once and compute the same code, the second insert
\* is refused by the store, reported as a failure, and changes nothing.
C22_CodesStayUnique ==
    /\ []NoSharedCode
    /\ [][\A s \in Tabs : WriteOfUsedCodeAnswered(s) => RefusedWrite(s)]_vars

\* both tabs left the code blank; one product was added, by one tab, and
\* the other tab was told of a failure with its form still open
C22_Witness ==
    \E s, t \in Tabs :
       /\ pr[s].toast = "Product added successfully"
       /\ pr[t].toast = "Failed to add product"
       /\ pr[t].open
       /\ pr[t].formData.code = ""
       /\ Len(dbProducts) = Len(Catalog) + 1
       /\ "P003" \in Codes(dbProducts)

----------------------------------------------------------------------------
(* Properties of the Printing Orders page *)

\* the orders a step adds to the store
AddedOrders == DOMAIN dbOrders' \ DOMAIN dbOrders

\* C23 as stated: every order the form inserts is created with
\* is_paid = false and is_completed = false.
C23_CreatedUnpaidIncomplete ==
    [][\A id \in AddedOrders :
          ~dbOrders'[id].is_paid /\ ~dbOrders'[id].is_completed]_vars

\* C23 amended: every order the form inserts is created with
\* is_completed = false and with is_paid as the payment status chosen in
\* the form, which is "unpaid" unless the user chose "paid".
C23_CreatedIncompletePaidAsChosen ==
    [][\A s \in Tabs :
          po[s].op.pc = "insert" /\ po'[s].op.pc = "idle" =>
             \A id \in AddedOrders :
                /\ ~dbOrders'[id].is_completed
                /\ dbOrders'[id].is_paid = (po[s].isPaid = "true")
                /\ po'[s].isPaid = "false"]_vars

\* an order as created with "paid" chosen
C23_Witness ==
    \E id \in DOMAIN dbOrders :
       /\ dbOrders[id].is_paid
       /\ ~dbOrders[id].is_completed
       /\ dbOrders[id].updated_at = dbOrders[id].created_at

OrderIds == 1..MaxOrders

Unpaid(id) == id \in DOMAIN dbOrders /\ ~dbOrders[id].is_paid

PaidOrGone(id) == id \in DOMAIN dbOrders => dbOrders[id].is_paid

\* no step changes the is_paid of a stored order: the page has no action
\* that writes the column after the insert
PaidStatusIsFixed ==
    [][\A id \in DOMAIN dbOrders \cap DOMAIN dbOrders' :
          dbOrders'[id].is_paid = dbOrders[id].is_paid]_vars

ToggleAnswered(s) ==
    /\ po[s].op.pc = "toggle"
    /\ po'[s].op.pc = "idle"
    /\ po'[s].toast \in {"Orderan selesai", "Orderan dipindahkan ke proses"}
    /\ po[s].op.id \in DOMAIN dbOrders

\* the store after a write of value to column of row id, and nothing else
ColumnSet(table, id, column, value) == [table EXCEPT ![id][column] = value]

\* C30 as stated: handleToggleComplete writes is_completed := NOT(the value
\* of the session's fetched list) and changes no other field and no other
\* order, so two sessions that toggle one order from the same list leave
\* is_completed at the negation of the listed value.
C30_ToggleWritesOnlyCompleted ==
    [][\A s \in Tabs :
          ToggleAnswered(s) =>
             dbOrders' = ColumnSet(dbOrders, po[s].op.id, "is_completed",
                                   ~po[s].op.currentStatus)]_vars

\* C30 amended: as stated, but for updated_at of the toggled order, which
\* the trigger of the table sets to now() on every update.
C30_ToggleWritesCompletedAndStamp ==
    [][\A s \in Tabs :
          ToggleAnswered(s) =>
             dbOrders' = ColumnSet(ColumnSet(dbOrders, po[s].op.id,
                                             "is_completed",
                                             ~po[s].op.currentStatus),
                                   po[s].op.id, "updated_at", clock)]_vars

\* both tabs toggled the order while their lists showed it in process: two
\* updates were stored and the order is completed
C30_Witness ==
    /\ \A s \in Tabs : po[s].toast = "Orderan selesai"
    /\ \E id \in DOMAIN dbOrders :
          /\ dbOrders[id].is_completed
          /\ dbOrders[id].updated_at = dbOrders[id].created_at + 2

----------------------------------------------------------------------------
(* Further properties of checkout and of the ledger *)

\* the headers stored for the cart as it has been since it was last empty:
\* where only a finished checkout empties the cart, those without items
HeadersOfThisCart == {t \in DOMAIN dbTx : ItemsOf(dbItems, t) = {}}

\* C25: each sale produces at most one header: between two moments at which
\* the cart is empty at most one row is inserted into transactions, also
\* when checkout is invoked again after a failed item insert.
C25_OneHeaderPerSale ==
    [][DOMAIN dbTx' # DOMAIN dbTx => HeadersOfThisCart = {}]_vars

\* C26: every stored transaction has payment_amount >= total_amount and
\* change_amount >= 0, after checkout and after any report edit of items or
\* of the payment amount.
C26_PaymentCoversTotal ==
    \A t \in DOMAIN dbTx :
        /\ dbTx[t].payment_amount >= dbTx[t].total_amount
        /\ dbTx[t].change_amount >= 0

\* C27: every stored transaction item has subtotal = quantity * price,
\* whether written by checkout or by a report edit.
C27_SubtotalIsQuantityTimesPrice ==
    \A k \in DOMAIN dbItems :
        dbItems[k].subtotal = dbItems[k].quantity * dbItems[k].price

\* the positions of the cart's lines for product id
LinesOf(c, id) == {i \in 1..Len(c) : c[i].product.id = id}

\* the lines of the cart as a set, and those a step changes, adds or removes
LinesIn(c) == {c[i] : i \in 1..Len(c)}

LinesTouched == (LinesIn(cart) \ LinesIn(cart')) \cup (LinesIn(cart') \ LinesIn(cart))

\* a step of an operation that addresses the line of product id
StepOn(id) ==
    \/ \E delta \in {-1, 1} : updateQuantity(id, delta)
    \/ \E text \in PriceTexts : updatePrice(id, text)
    \/ \E text \in NameTexts : updateName(id, text)
    \/ removeFromCart(id)

\* C28: the cart holds at most one line per product id, so a step of
\* updateQuantity, updatePrice, updateName or removeFromCart touches lines of
\* the product it names only, and at most one line of the cart before it.
C28_OneLinePerProduct ==
    /\ [](\A id \in 1..Len(Catalog) : Cardinality(LinesOf(cart, id)) <= 1)
    /\ [][\A id \in 1..Len(Catalog) :
            StepOn(id) =>
               /\ \A l \in LinesTouched : l.product.id = id
               /\ Cardinality(LinesIn(cart) \ LinesIn(cart')) <= 1
               /\ Cardinality(LinesIn(cart') \ LinesIn(cart)) <= 1]_vars

\* a cart of two lines in which a product was added a second time, one line
\* carries a price override and the other a name override
C28_Witness ==
    /\ Len(cart) = 2
    /\ \E i \in 1..2 : cart[i].quantity = 2
    /\ \E i \in 1..2 : cart[i].displayPrice # cart[i].product.price
    /\ \E i \in 1..2 : cart[i].displayName # cart[i].product.name

\* a checkout whose header was deleted while its items insert is on the way
HeaderGone(h) ==
    /\ pay[h].pc = "items"
    /\ ~References(dbTx, pay[h].transactionId)

\* C29: every stored transaction item refers to a stored transaction, also
\* when another tab deletes the header between the header insert and the
\* items insert of a checkout: that items insert stores nothing.
C29_ItemsHaveHeaders ==
    /\ [](\A k \in DOMAIN dbItems : dbItems[k].transaction_id \in DOMAIN dbTx)
    /\ [][\A h \in Slots :
            HeaderGone(h) /\ pay'[h] # pay[h] =>
               /\ dbItems' = dbItems
               /\ toast' = "Gagal menyimpan detail transaksi"]_vars

\* the items insert of a checkout failed after its header was deleted, while
\* the items of another sale are stored
C29_Witness ==
    /\ toast = "Gagal menyimpan detail transaksi"
    /\ \E h \in Slots : pay[h].pc = "idle" /\ pay[h].log = <<"header">>
    /\ \E id \in 1..MaxTx + 1 : id < nextId.tx /\ id \notin DOMAIN dbTx
    /\ dbItems # <<>>
    /\ Cardinality(DOMAIN dbTx) = 1

============================================================================
